---- MODULE Spec2Model ----
(***************************************************************************)
(* RTP -> fMP4 recording pipeline of flynnletford/mediamtx.                *)
(*                                                                         *)
(* The module holds several specifications over one set of variables, one  *)
(* per part of the pipeline:                                               *)
(*   SpecMux      the file writers (MP4Writer, RTPRecorder) and MuxerMP4   *)
(*   SpecFan      the stream fan-out to its readers                        *)
(*   SpecSeg      segment rotation of the recorder                         *)
(*   SpecReorder  rtpreorderer.Reorderer.Process as a function             *)
(*   SpecLoop     the per-track RTP loop of RecordFromPeerConnection       *)
(*   SpecMuxer    MuxerMP4.WriteSample and WriteFinalDTS called directly   *)
(*   SpecPts      RTPRecorder2 and its timestamp conversions               *)
(*   SpecNtp      the RTCP receiver: Sender Reports and PacketNTP          *)
(*   SpecSup      WebRTCRecorder: Initialize, the supervisor, Close        *)
(*   SpecSupFair  the same with the supervisor goroutine scheduled fairly  *)
(*   SpecTracks   RecordFromPeerConnection and its OnTrack callbacks       *)
(*   SpecParams   RTPRecorder fed SPS and PPS packets, in any order        *)
(*   SpecOwn      the MP4Writer of part_002 and a caller that reuses       *)
(*                its packet objects                                       *)
(*   SpecCb       the recorder's lifecycle callbacks, with write errors    *)
(*   SpecNew      the constructors and their failure branches              *)
(* A specification leaves the variables of the other parts unchanged.      *)
(***************************************************************************)
EXTENDS Integers, Sequences, FiniteSets, TLC

VARIABLES
    \* ---- file writers and muxer (SpecMux)
    writer,            \* which writer type is under test
    muxer,             \* MuxerMP4: Tracks, CurTrack; created = (r.muxer != nil)
    h264DTSExtractor,  \* MP4Writer.h264DTSExtractor / RTPRecorder.dtsExtractor
    sps, pps,          \* RTPRecorder.sps / .pps (0 = nil)
    firstTimestamp,    \* MP4Writer.firstTimestamp of part_002 (pointer, nil at start)
    proc,              \* formatprocessor.Processor of part_002
    emitted,           \* history: the arguments of every MuxerMP4.WriteSample call
    calls,             \* history: number of WriteRTPPacket calls made
    lastPkt,           \* history: the packet of the last WriteRTPPacket call
    lastErr,           \* history: the error the last WriteRTPPacket call returned
    file,              \* "open" | "closed" | "panic"; flushed; finalDTS passed
    \* ---- stream fan-out (SpecFan)
    readers,           \* per reader: status, queue, delivered
    units,             \* history: units emitted by the format processor, in order
    \* ---- segment rotation (SpecSeg)
    segmentDuration,   \* Recorder.SegmentDuration, in ticks
    curSegment,        \* current segment (samples written to it), or NoSegment
    segments,          \* history: closed segments, in order
    recState,          \* "running" until the recorder is closed
    lastSync,          \* input side: dts of the last sync sample fed
    nextDts,           \* input side: dts of the next sample
    cbLog,             \* history: the lifecycle callbacks invoked, in order
    \* ---- reorderer (SpecReorder, SpecLoop)
    reorderer,         \* rtpreorderer.Reorderer
    seqBase,           \* sequence number the fed packets are counted from
    fed,               \* history: sequence numbers fed, in order
    delivered,         \* history: sequence numbers delivered by Process, in order
    lastResult,        \* (packets, lost) of the last Process call
    \* ---- RTP loop of RecordFromPeerConnection (SpecLoop)
    variant,           \* which copy of the loop is under test
    srReceived,        \* rtcpReceiver has processed a Sender Report
    written,           \* history: sequence numbers passed to Stream.WriteRTPPacket
    emptySeqs,         \* input side: sequence numbers of the packets with an empty payload
    tsBase,            \* input side: RTP timestamp of the packet the run is counted from
    otherSsrc,         \* input side: sequence numbers of the packets of another SSRC
    remoteSSRC,        \* rtcpReceiver: SSRC of the first packet it processed (0 = none)
    firstRTPTime,      \* firstRTPTime of the loop in webrtc_recorder.go
    ptsLog,            \* history: timestamp and pts of every Stream.WriteRTPPacket call
    \* ---- timestamp conversions (SpecPts, SpecNtp)
    rec2Log,           \* history: (timestamp, ntp, pts) of every RTPRecorder2.WriteRTPPacket
    rtcpReceiver,      \* rtcpreceiver.RTCPReceiver: the last Sender Report
    ntpLog,            \* history: every PacketNTP call with its result
    \* ---- WebRTCRecorder lifecycle (SpecSup)
    recVariant,        \* which copy of WebRTCRecorder is under test
    terminate,         \* WebRTCRecorder.terminate: "open" | "closed"
    done,              \* WebRTCRecorder.done: "open" | "closed"
    currentInstance,   \* WebRTCRecorder.currentInstance (0 = nil)
    instances,         \* every recorderInstance created, in order of creation
    runPc,             \* position of the run goroutine
    waitOn,            \* instance whose done channel the first select evaluated
    timer,             \* ticks since time.After was armed
    closePc,           \* position of the caller of Close
    recordPc,          \* position of RecordFromPeerConnection
    supLog,            \* history: what the supervisor and Close did, in order
    \* ---- constructors (SpecNew)
    ctor,              \* the constructor call in progress: position and what it holds
    built,             \* history: the constructor calls that returned, in order
    \* ---- RecordFromPeerConnection and its OnTrack callbacks (SpecTracks)
    recordCall,        \* position of the caller of RecordFromPeerConnection
    waited,            \* seconds since time.After(5 * time.Second) was armed
    trackPc,           \* position of the OnTrack callback of every track
    medias,            \* the medias slice shared by the callbacks
    strm,              \* the stream: Desc, whether and how often it was initialized
    trackLog,          \* history: the callbacks that ran, in order
    strmWrites         \* history: the Stream.WriteRTPPacket calls of the track loops

muxVars == <<writer, muxer, h264DTSExtractor, sps, pps, firstTimestamp, proc,
             emitted, calls, lastPkt, lastErr, file>>
fanVars == <<readers, units>>
segVars == <<segmentDuration, curSegment, segments, recState, lastSync, nextDts,
             cbLog>>
reoVars == <<reorderer, seqBase, fed, delivered, lastResult>>
loopVars == <<variant, srReceived, written, emptySeqs, tsBase, otherSsrc,
              remoteSSRC, firstRTPTime, ptsLog>>
clkVars == <<rec2Log, rtcpReceiver, ntpLog>>
supVars == <<recVariant, terminate, done, currentInstance, instances, runPc,
             waitOn, timer, closePc, recordPc, supLog>>
ctorVars == <<ctor, built>>
trkVars == <<recordCall, waited, trackPc, medias, strm, trackLog, strmWrites>>
vars == <<muxVars, fanVars, segVars, reoVars, loopVars, clkVars, supVars,
          ctorVars, trkVars>>

(***************************************************************************)
(* Bounds of the model.                                                    *)
(***************************************************************************)
\* WriteRTPPacket calls per run of an MP4Writer
MaxPackets == 3
\* WriteRTPPacket calls per run of an RTPRecorder (two or more of them carry SPS and PPS)
MaxRecorderPackets == 5
\* largest pts - dts the DTS extractor may produce (reorder depth, in ticks)
MaxReorder == 1
\* width of an RTP timestamp in the model; the code's is 32 (uint32 / int32)
TsBits == 3

TsMod == 2 ^ TsBits
\* uint32(x)
Uint32(x) == x % TsMod
\* int32(x): two's complement of the same width
Int32(x) == LET m == x % TsMod IN IF m >= TsMod \div 2 THEN m - TsMod ELSE m

Max(a, b) == IF a >= b THEN a ELSE b

(***************************************************************************)
(* RTP packets fed to the writers.                                         *)
(*   kind: what the payload is                                             *)
(*     idr, slice, sps, pps  a single NAL unit of that type, marker set    *)
(*     fu_start, fu_end      first / last FU-A fragment of an IDR NAL unit *)
(***************************************************************************)
PtH264 == 96
PtVP8 == 98
PayloadTypes == {PtH264, PtVP8}
Timestamps == {0, 1, 2, TsMod - 1}
Kinds == {"idr", "slice", "sps", "pps", "fu_start", "fu_end"}
ParamIds == {1, 2}

Packets ==
    { [PayloadType |-> pt, Timestamp |-> ts, kind |-> k, param |-> 1] :
          pt \in PayloadTypes, ts \in Timestamps, k \in Kinds \ {"sps", "pps"} }
    \cup
    { [PayloadType |-> PtH264, Timestamp |-> ts, kind |-> k, param |-> p] :
          ts \in Timestamps, k \in {"sps", "pps"}, p \in ParamIds }

\* no WriteRTPPacket call has been made yet
NilPacket == [PayloadType |-> 0, Timestamp |-> 0, kind |-> "none", param |-> 0]

(***************************************************************************)
(* MuxerMP4 (package playback).  A track's Samples is nil exactly when it  *)
(* is empty: the code only ever sets it to nil or appends to it.           *)
(***************************************************************************)
NoTrack == 0

NewTrack(id, codec) ==
    [ID |-> id, Codec |-> codec, Samples |-> <<>>, LastDTS |-> 0, TimeOffset |-> 0]

NewMuxer == [created |-> TRUE, Tracks |-> <<>>, CurTrack |-> NoTrack]
NilMuxer == [created |-> FALSE, Tracks |-> <<>>, CurTrack |-> NoTrack]

\* findTrackMP4: index of the first track with that ID, NoTrack when none
findTrackMP4(tracks, id) ==
    IF \E i \in 1..Len(tracks) : tracks[i].ID = id
    THEN CHOOSE i \in 1..Len(tracks) :
             /\ tracks[i].ID = id
             /\ \A j \in 1..(i - 1) : tracks[j].ID # id
    ELSE NoTrack

\* WriteInit: replaces all tracks by fresh ones, one per init track
WriteInit(m, initTracks) ==
    [m EXCEPT !.Tracks = [i \in 1..Len(initTracks) |->
                              NewTrack(initTracks[i].ID, initTracks[i].Codec)]]

SetTrack(m, trackID) == [m EXCEPT !.CurTrack = findTrackMP4(m.Tracks, trackID)]

WriteSampleDiscardsNegativeOnly(dts, lastDTS, isNonSyncSample) ==
    dts < 0 /\ ~isNonSyncSample

\* the GOP-removal condition of WriteSample
WriteSampleDiscards(dts, lastDTS, isNonSyncSample) ==
    (dts < 0 \/ (dts >= 0 /\ lastDTS < 0)) /\ ~isNonSyncSample

\* the duration WriteSample and WriteFinalDTS give the last sample:
\* diff := dts - LastDTS; if diff < 0 { diff = 0 }; uint32(diff)
SampleDurationUnclamped(dts, lastDTS) == Uint32(dts - lastDTS)

SampleDuration(dts, lastDTS) == Uint32(Max(dts - lastDTS, 0))

StoredPTSOffsetUnclamped(ptsOffset, isNonSyncSample) == ptsOffset

\* the pts offset WriteSample stores
StoredPTSOffset(ptsOffset, isNonSyncSample) ==
    IF ~isNonSyncSample THEN 0 ELSE ptsOffset

\* WriteSample on the current track (the callers set one before)
WriteSample(m, dts, ptsOffset, isNonSyncSample, payloadSize) ==
    LET t == m.Tracks[m.CurTrack]
        kept == IF WriteSampleDiscards(dts, t.LastDTS, isNonSyncSample)
                THEN <<>> ELSE t.Samples
        prev == IF kept = <<>> THEN kept
                ELSE [kept EXCEPT ![Len(kept)].Duration =
                                      SampleDuration(dts, t.LastDTS)]
        sample == [PTSOffset |-> StoredPTSOffset(ptsOffset, isNonSyncSample),
                   IsNonSyncSample |-> isNonSyncSample,
                   PayloadSize |-> payloadSize,
                   Duration |-> 0]
    IN [m EXCEPT !.Tracks[m.CurTrack] =
           [t EXCEPT !.Samples = Append(prev, sample),
                     !.TimeOffset = IF kept = <<>> THEN Int32(dts) ELSE @,
                     !.LastDTS = dts]]

\* the final DTS a Close passed to WriteFinalDTS, none before that
NoFinalDTS == [set |-> FALSE, dts |-> 0]
FinalDTS(dts) == [set |-> TRUE, dts |-> dts]

\* WriteFinalDTS indexes Samples[len-1]: it panics on a track without samples
WriteFinalDTSPanics(m) == m.Tracks[m.CurTrack].Samples = <<>>

WriteFinalDTS(m, dts) ==
    LET t == m.Tracks[m.CurTrack]
    IN [m EXCEPT !.Tracks[m.CurTrack].Samples[Len(t.Samples)].Duration =
                     SampleDuration(dts, t.LastDTS)]

(***************************************************************************)
(* Codec helpers, depacketizer and DTS extractor used by the writers.      *)
(***************************************************************************)
\* h264.IsRandomAccess: the access unit holds an IDR NAL unit
IsRandomAccess(nalus) == \E i \in 1..Len(nalus) : nalus[i] = "idr"

\* rtph264.Decoder.Decode of a decoder created for this one packet, as
\* MP4Writer.WriteRTPPacket does: a fragment can never be completed
DecodeFresh(pkt) ==
    CASE pkt.kind = "fu_start" -> [err |-> "ErrMorePacketsNeeded", nalus |-> <<>>]
      [] pkt.kind = "fu_end" -> [err |-> "ErrNonStartingPacketAndNoPrevious", nalus |-> <<>>]
      [] OTHER -> [err |-> "nil", nalus |-> <<pkt.kind>>]

\* DTS extractor: nil until created; then the last DTS it returned
NilExtractor == [init |-> FALSE, prevFilled |-> FALSE, prevDTS |-> 0]
NewExtractor == [init |-> TRUE, prevFilled |-> FALSE, prevDTS |-> 0]

\* DTSExtractor.Extract(au, pts): an error, or a DTS that is at most pts and
\* above the DTS returned before (section 4.4 of the specification)
Extract(ext, pts) ==
    {[err |-> TRUE, dts |-> 0, ext |-> ext]}
    \cup
    {[err |-> FALSE, dts |-> d,
      ext |-> [init |-> TRUE, prevFilled |-> TRUE, prevDTS |-> d]] :
        d \in {x \in (pts - MaxReorder)..pts : ext.prevFilled => x > ext.prevDTS}}

\* the error a writer returns when Extract returned r: Extract's own
ExtractError(r) == IF r.err THEN "extract" ELSE "nil"

\* getCodecForPayloadType: the default parameter sets (id 0) of the codec
getCodecForPayloadType(payloadType) ==
    IF payloadType = PtH264 THEN [name |-> "H264", SPS |-> 0, PPS |-> 0]
    ELSE [name |-> "H264 (fallback)", SPS |-> 0, PPS |-> 0]

\* one WriteSample call as the history records it
Emit(trackID, pts, dts, ptsOffset, isNonSyncSample) ==
    [track |-> trackID, pts |-> pts, dts |-> dts, ptsOffset |-> ptsOffset,
     isNonSyncSample |-> isNonSyncSample]

(***************************************************************************)
(* MP4Writer of src/recorder/mp4_writer.go.                                *)
(***************************************************************************)
\* lines 47-62: the track of the packet's payload type is (re)created when it
\* is not the current one
MP4Writer_EnsureTrack(m, payloadType) ==
    IF m.CurTrack = NoTrack \/ m.Tracks[m.CurTrack].ID # payloadType
    THEN SetTrack(WriteInit(m, <<[ID |-> payloadType,
                                  Codec |-> getCodecForPayloadType(payloadType)]>>),
                  payloadType)
    ELSE m

\* lines 95-102: an access unit is dropped while there is no extractor and it
\* is not a random access one
MP4Writer_DropsBeforeInit(ext, nalus) == ~ext.init /\ ~IsRandomAccess(nalus)

MP4Writer_WriteRTPPacket(pkt) ==
    /\ UNCHANGED <<fanVars, segVars, reoVars, loopVars, clkVars, supVars, ctorVars, trkVars>>
    /\ writer = "MP4Writer"
    /\ file.state = "open"
    /\ calls < MaxPackets
    /\ calls' = calls + 1
    /\ lastPkt' = pkt
    /\ UNCHANGED <<writer, sps, pps, firstTimestamp, proc, file>>
    /\ LET m1 == MP4Writer_EnsureTrack(muxer, pkt.PayloadType)
           pts == pkt.Timestamp
           dec == DecodeFresh(pkt)
       IN IF pkt.PayloadType = PtH264
          THEN IF dec.err # "nil" \/ MP4Writer_DropsBeforeInit(h264DTSExtractor, dec.nalus)
               THEN /\ muxer' = m1
                    /\ lastErr' = "nil"
                    /\ UNCHANGED <<h264DTSExtractor, emitted>>
               ELSE \E r \in Extract(IF h264DTSExtractor.init THEN h264DTSExtractor
                                     ELSE NewExtractor, pts) :
                      /\ h264DTSExtractor' = r.ext
                      /\ lastErr' = ExtractError(r)
                      /\ IF r.err
                         THEN muxer' = m1 /\ UNCHANGED emitted
                         ELSE LET isNonSyncSample == ~IsRandomAccess(dec.nalus)
                                  ptsOffset == Int32(pts - r.dts)
                              IN /\ muxer' = WriteSample(m1, r.dts, ptsOffset,
                                                         isNonSyncSample, 1)
                                 /\ emitted' = Append(emitted,
                                        Emit(pkt.PayloadType, pts, r.dts, ptsOffset,
                                             isNonSyncSample))
          ELSE /\ muxer' = WriteSample(m1, pts, 0, FALSE, 1)
               /\ emitted' = Append(emitted, Emit(pkt.PayloadType, pts, pts, 0, FALSE))
               /\ lastErr' = "nil"
               /\ UNCHANGED h264DTSExtractor

\* Close of both MP4Writer types: WriteFinalDTS(LastDTS), Flush, file.Close
MP4Writer_Close ==
    /\ UNCHANGED <<fanVars, segVars, reoVars, loopVars, clkVars, supVars, ctorVars, trkVars>>
    /\ writer \in {"MP4Writer", "MP4WriterProc"}
    /\ file.state = "open"
    /\ UNCHANGED <<writer, h264DTSExtractor, sps, pps, firstTimestamp, proc,
                   emitted, calls, lastPkt, lastErr>>
    /\ IF muxer.CurTrack # NoTrack /\ WriteFinalDTSPanics(muxer)
       THEN /\ file' = [file EXCEPT !.state = "panic"]
            /\ UNCHANGED muxer
       ELSE /\ muxer' = IF muxer.CurTrack # NoTrack
                        THEN WriteFinalDTS(muxer, muxer.Tracks[muxer.CurTrack].LastDTS)
                        ELSE muxer
            /\ file' = [state |-> "closed", flushed |-> TRUE,
                        finalDTS |-> IF muxer.CurTrack # NoTrack
                                     THEN FinalDTS(muxer.Tracks[muxer.CurTrack].LastDTS)
                                     ELSE NoFinalDTS]

(***************************************************************************)
(* RTPRecorder of src/recorder/rtp_recorder.go.  It does not read the      *)
(* payload type; its packets are the H264 ones.                            *)
(***************************************************************************)
\* lines 57-90: the muxer, its track 1 and the extractor are created once both
\* parameter sets are known; the codec holds the parameter sets of that moment
RTPRecorder_InitMuxer(s, p) ==
    SetTrack(WriteInit(NewMuxer, <<[ID |-> 1,
                                    Codec |-> [name |-> "H264", SPS |-> s, PPS |-> p]]>>),
             1)

\* fault model of RTPRecorder_EnsureMuxer: the track of a muxer that exists
\* follows the parameter sets received since
RTPRecorder_EnsureMuxerFollowsParams(m, s, p) ==
    IF m.created
    THEN [m EXCEPT !.Tracks[1].Codec = [name |-> "H264", SPS |-> s, PPS |-> p]]
    ELSE RTPRecorder_InitMuxer(s, p)

\* lines 58-90: the muxer is created when there is none (r.muxer == nil)
RTPRecorder_EnsureMuxer(m, s, p) ==
    IF m.created THEN m ELSE RTPRecorder_InitMuxer(s, p)

\* fault model of RTPRecorder_WaitsForParams: the PPS is not waited for
RTPRecorder_WaitsForSPS(m, s, p) == ~m.created /\ s = 0

\* lines 58-61: without a muxer, nothing is done until r.sps and r.pps are set
RTPRecorder_WaitsForParams(m, s, p) == ~m.created /\ (s = 0 \/ p = 0)

\* lines 101-110: the arguments of the WriteSample call
RTPRecorder_SampleDTS(timestamp, dts) == timestamp
RTPRecorder_SamplePTSOffset(timestamp, dts) == Int32(timestamp - dts)

RTPRecorder_WriteRTPPacket(pkt) ==
    /\ UNCHANGED <<fanVars, segVars, reoVars, loopVars, clkVars, supVars, ctorVars, trkVars>>
    /\ writer = "RTPRecorder"
    /\ pkt.PayloadType = PtH264
    /\ file.state = "open"
    /\ calls < MaxRecorderPackets
    /\ calls' = calls + 1
    /\ lastPkt' = pkt
    /\ UNCHANGED <<writer, firstTimestamp, proc, file>>
    /\ CASE pkt.kind = "sps" ->
              /\ sps' = pkt.param
              /\ lastErr' = "nil"
              /\ UNCHANGED <<pps, muxer, h264DTSExtractor, emitted>>
         [] pkt.kind = "pps" ->
              /\ pps' = pkt.param
              /\ lastErr' = "nil"
              /\ UNCHANGED <<sps, muxer, h264DTSExtractor, emitted>>
         [] OTHER ->
              /\ UNCHANGED <<sps, pps>>
              /\ IF RTPRecorder_WaitsForParams(muxer, sps, pps)
                 THEN /\ lastErr' = "nil"
                      /\ UNCHANGED <<muxer, h264DTSExtractor, emitted>>
                 ELSE LET m1 == RTPRecorder_EnsureMuxer(muxer, sps, pps)
                          e1 == IF muxer.created THEN h264DTSExtractor ELSE NewExtractor
                          nalus == <<pkt.kind>>
                      IN \E r \in Extract(e1, pkt.Timestamp) :
                           /\ h264DTSExtractor' = r.ext
                           /\ lastErr' = ExtractError(r)
                           /\ IF r.err
                              THEN muxer' = m1 /\ UNCHANGED emitted
                              ELSE LET dts == RTPRecorder_SampleDTS(pkt.Timestamp, r.dts)
                                       ptsOffset ==
                                           RTPRecorder_SamplePTSOffset(pkt.Timestamp, r.dts)
                                       isNonSyncSample == ~IsRandomAccess(nalus)
                                   IN /\ muxer' = WriteSample(m1, dts, ptsOffset,
                                                              isNonSyncSample, 1)
                                      /\ emitted' = Append(emitted,
                                             Emit(1, pkt.Timestamp, dts, ptsOffset,
                                                  isNonSyncSample))

\* Close: WriteFinalDTS(LastDTS) when there is a muxer, then file.Close; no Flush
RTPRecorder_Close ==
    /\ UNCHANGED <<fanVars, segVars, reoVars, loopVars, clkVars, supVars, ctorVars, trkVars>>
    /\ writer = "RTPRecorder"
    /\ file.state = "open"
    /\ UNCHANGED <<writer, h264DTSExtractor, sps, pps, firstTimestamp, proc,
                   emitted, calls, lastPkt, lastErr>>
    /\ IF muxer.created /\ WriteFinalDTSPanics(muxer)
       THEN /\ file' = [file EXCEPT !.state = "panic"]
            /\ UNCHANGED muxer
       ELSE /\ muxer' = IF muxer.created
                        THEN WriteFinalDTS(muxer, muxer.Tracks[muxer.CurTrack].LastDTS)
                        ELSE muxer
            /\ file' = [state |-> "closed", flushed |-> FALSE,
                        finalDTS |-> IF muxer.created
                                     THEN FinalDTS(muxer.Tracks[muxer.CurTrack].LastDTS)
                                     ELSE NoFinalDTS]

(***************************************************************************)
(* MP4Writer of src/unnamed/part_002: packets go through the format        *)
(* processor first (package formatprocessor, sections 4.1, 4.4 and 4.5 of  *)
(* the specification).                                                     *)
(***************************************************************************)
NewProcessor == [frag |-> FALSE, ext |-> NilExtractor]

\* the depacketizer of the processor: state kept across packets
Depacketize(p, pkt) ==
    CASE pkt.kind = "fu_start" -> [frag |-> TRUE, au |-> <<>>]
      [] pkt.kind = "fu_end" ->
             IF p.frag THEN [frag |-> FALSE, au |-> <<"idr">>]
             ELSE [frag |-> FALSE, au |-> <<>>]
      [] OTHER -> [frag |-> FALSE, au |-> <<pkt.kind>>]

\* ProcessRTPPacket: the unit (AU empty: none yet, or dropped), or an error
ProcessRTPPacket(p, pkt, pts) ==
    LET d == Depacketize(p, pkt)
        p1 == [p EXCEPT !.frag = d.frag]
    IN IF d.au = <<>> \/ (~p.ext.init /\ ~IsRandomAccess(d.au))
       THEN {[err |-> FALSE, AU |-> <<>>, proc |-> p1]}
       ELSE {[err |-> r.err, AU |-> IF r.err THEN <<>> ELSE d.au,
              proc |-> [p1 EXCEPT !.ext = r.ext]] :
                 r \in Extract(IF p.ext.init THEN p.ext ELSE NewExtractor, pts)}

\* w.firstTimestamp is a pointer to the Timestamp field of a packet: nil, or
\* the call whose packet it points into and the value that field holds now
NilTimestamp == [set |-> FALSE, call |-> 0, val |-> 0]

\* line 100: relativeTs := int64(pkt.Timestamp - *w.firstTimestamp), in uint32
MP4WriterProc_RelativeTs(timestamp, first) == Uint32(timestamp - first)

MP4WriterProc_WriteRTPPacket(pkt) ==
    /\ UNCHANGED <<fanVars, segVars, reoVars, loopVars, clkVars, supVars, ctorVars, trkVars>>
    /\ writer = "MP4WriterProc"
    /\ pkt.PayloadType = PtH264
    /\ file.state = "open"
    /\ calls < MaxPackets
    /\ calls' = calls + 1
    /\ lastPkt' = pkt
    /\ UNCHANGED <<writer, h264DTSExtractor, sps, pps, file>>
    /\ \E u \in ProcessRTPPacket(proc, pkt, pkt.Timestamp) :
         /\ proc' = u.proc
         /\ lastErr' = ExtractError(u)
         /\ IF u.err \/ u.AU = <<>>
            THEN UNCHANGED <<muxer, firstTimestamp, emitted>>
            ELSE LET first == IF firstTimestamp.set THEN firstTimestamp
                              ELSE [set |-> TRUE, call |-> calls + 1,
                                    val |-> pkt.Timestamp]
                     m1 == IF muxer.CurTrack = NoTrack
                           THEN SetTrack(WriteInit(muxer,
                                    <<[ID |-> PtH264,
                                       Codec |-> [name |-> "H264", SPS |-> 0, PPS |-> 0]]>>),
                                    PtH264)
                           ELSE muxer
                     isNonSyncSample == ~IsRandomAccess(u.AU)
                     relativeTs == MP4WriterProc_RelativeTs(pkt.Timestamp, first.val)
                 IN /\ firstTimestamp' = first
                    /\ muxer' = WriteSample(m1, relativeTs, 0, isNonSyncSample, 1)
                    /\ emitted' = Append(emitted,
                           Emit(PtH264, relativeTs, relativeTs, 0, isNonSyncSample))

\* After a call has returned, the caller writes another timestamp into the
\* packet object it passed (it reuses the object for the next packet).  The
\* field that line 75 took the address of changes with it.
Caller_ChangesPacket(ts) ==
    /\ UNCHANGED <<fanVars, segVars, reoVars, loopVars, clkVars, supVars, ctorVars, trkVars>>
    /\ writer = "MP4WriterProc"
    /\ file.state = "open"
    /\ calls > 0
    /\ lastPkt.Timestamp # ts
    /\ lastPkt' = [lastPkt EXCEPT !.Timestamp = ts]
    /\ firstTimestamp' = IF firstTimestamp.set /\ firstTimestamp.call = calls
                         THEN [firstTimestamp EXCEPT !.val = ts]
                         ELSE firstTimestamp
    /\ UNCHANGED <<writer, muxer, h264DTSExtractor, sps, pps, proc, emitted, calls,
                   lastErr, file>>

(***************************************************************************)
(* The constructors that can fail after they have acquired something:      *)
(*   "rtptomp4.NewMP4Writer"    src/rtptomp4/writer.go, lines 47-155       *)
(*   "recorder.NewRTPRecorder"  src/unnamed/part_003, lines 38-120         *)
(* A constructor runs the steps of its code in order; a step that has an   *)
(* error branch in the code may fail, and the branch is then taken.        *)
(***************************************************************************)
\* constructor calls per run
MaxConstructions == 2

Constructors == {"rtptomp4.NewMP4Writer", "recorder.NewRTPRecorder"}

\* the calls a constructor makes, in the order of its code
CtorSteps(fn) ==
    IF fn = "rtptomp4.NewMP4Writer"
    THEN <<"os.Create", "logger.New", "formatprocessor.New", "codec",
           "stream.Initialize", "encoder.Init", "stream.AddReader">>
    ELSE <<"os.Create", "stream.Initialize", "rec.Initialize",
           "format.initialize", "stream.AddReader", "stream.StartReader">>

\* the steps whose failure the code handles by returning an error
CtorFailures(fn) ==
    IF fn = "rtptomp4.NewMP4Writer"
    THEN {"os.Create", "logger.New", "formatprocessor.New", "codec",
          "stream.Initialize", "encoder.Init"}
    ELSE {"os.Create", "stream.Initialize", "format.initialize"}

\* no constructor is running
NilCtor ==
    [fn |-> "none", failAt |-> "none", pc |-> 0, file |-> "none",
     stream |-> "none", recorder |-> "none", reader |-> "none", ret |-> "none"]

\* what a step that succeeds leaves behind.  rec.Initialize() creates the
\* recorder's instance and starts its supervisor and the instance's reader.
CtorEffect(c, step) ==
    CASE step = "os.Create" -> [c EXCEPT !.file = "open"]
      [] step = "stream.Initialize" -> [c EXCEPT !.stream = "initialized"]
      [] step = "rec.Initialize" -> [c EXCEPT !.recorder = "running"]
      [] step = "stream.AddReader" -> [c EXCEPT !.reader = "added"]
      [] step = "stream.StartReader" -> [c EXCEPT !.reader = "running"]
      [] OTHER -> c

\* what the error branch of a step does before it returns the error:
\* file.Close(), except where there is no file yet
CtorCleanup(c, step) ==
    IF step = "os.Create" THEN c ELSE [c EXCEPT !.file = "closed"]

\* the constructor is called; failAt is the step that will fail, if any
New_Call(fn, failAt) ==
    /\ UNCHANGED <<muxVars, fanVars, segVars, reoVars, loopVars, clkVars, supVars, trkVars>>
    /\ ctor = NilCtor
    /\ Len(built) < MaxConstructions
    /\ ctor' = [NilCtor EXCEPT !.fn = fn, !.failAt = failAt, !.pc = 1]
    /\ UNCHANGED built

\* the next step of the constructor succeeds
New_Step ==
    /\ UNCHANGED <<muxVars, fanVars, segVars, reoVars, loopVars, clkVars, supVars, trkVars>>
    /\ ctor.pc \in 1..Len(CtorSteps(ctor.fn))
    /\ CtorSteps(ctor.fn)[ctor.pc] # ctor.failAt
    /\ ctor' = [CtorEffect(ctor, CtorSteps(ctor.fn)[ctor.pc]) EXCEPT !.pc = @ + 1]
    /\ UNCHANGED built

\* the next step fails: the error branch runs and the constructor returns
\* the error
New_StepFails ==
    /\ UNCHANGED <<muxVars, fanVars, segVars, reoVars, loopVars, clkVars, supVars, trkVars>>
    /\ ctor.pc \in 1..Len(CtorSteps(ctor.fn))
    /\ CtorSteps(ctor.fn)[ctor.pc] = ctor.failAt
    /\ built' = Append(built,
           [CtorCleanup(ctor, CtorSteps(ctor.fn)[ctor.pc]) EXCEPT !.ret = "error"])
    /\ ctor' = NilCtor

\* all steps are done: the constructor returns the writer
New_Return ==
    /\ UNCHANGED <<muxVars, fanVars, segVars, reoVars, loopVars, clkVars, supVars, trkVars>>
    /\ ctor.pc = Len(CtorSteps(ctor.fn)) + 1
    /\ built' = Append(built, [ctor EXCEPT !.ret = "ok"])
    /\ ctor' = NilCtor

IdleCtor == ctor = NilCtor /\ built = <<>>

(***************************************************************************)
(* RecordFromPeerConnection of src/recorder/webrtc_recorder.go (lines      *)
(* 131-343) and the OnTrack callbacks it registers.  The peer connection   *)
(* runs the callback of every track on a goroutine of its own, so the      *)
(* callbacks interleave with each other and with the caller, statement by  *)
(* statement; trackChan is unbuffered and the callback sends on it without *)
(* blocking.                                                               *)
(*   recordCall: "none"       not called yet                               *)
(*               "registered" pc.OnTrack has returned (line 334)           *)
(*               "select"     blocked in the select of lines 337-341       *)
(*               "nil"        returned nil                                 *)
(*               "timeout"    returned "no tracks received within timeout" *)
(*   trackPc:    "idle"       the track has not arrived                    *)
(*               "entered"    lines 146-202 done: media appended, signal   *)
(*                            sent or dropped                              *)
(*               "setdesc"    line 205 has read strm.Desc == nil           *)
(*               "initialize" line 207 has set strm.Desc                   *)
(*               "loop"       in the RTP loop of lines 280-333             *)
(*               "returned"   the callback has returned                    *)
(***************************************************************************)
\* tracks of a peer connection
MaxTracks == 2
\* Stream.WriteRTPPacket calls per run
MaxStreamWrites == 2

\* time.After(5 * time.Second), in seconds
TrackWait == 5

Tracks == 1..MaxTracks
TrackIDs == {"video", "audio"}
MimeTypes == {"video/H264", "video/VP8", "audio/opus"}

\* lines 149-189: the track's ID is "video" and its codec is one of the switch
IsSupportedTrack(id, mime) == id = "video" /\ mime \in {"video/H264", "video/VP8"}

NilDesc == [set |-> FALSE, Medias |-> <<>>]
\* strm of line 133: initialized counts the successful Initialize calls,
\* recorders the Recorders created on the stream
NewStream == [Desc |-> NilDesc, initializeCalls |-> 0, initialized |-> 0,
              recorders |-> 0]

\* lines 199-202: select { case trackChan <- struct{}{}: default: }; the send
\* is taken only if the caller is blocked in its receive at that moment
TrackChanSend(call) == call = "select"

\* lines 131-334: the stream is created and the callback registered
RecordFromPeerConnection_Call ==
    /\ UNCHANGED <<muxVars, fanVars, segVars, reoVars, loopVars, clkVars, supVars, ctorVars>>
    /\ recordCall = "none"
    /\ recordCall' = "registered"
    /\ UNCHANGED <<waited, trackPc, medias, strm, trackLog, strmWrites>>

\* lines 337-339: the caller reaches the select and the timer is armed
RecordFromPeerConnection_Select ==
    /\ UNCHANGED <<muxVars, fanVars, segVars, reoVars, loopVars, clkVars, supVars, ctorVars>>
    /\ recordCall = "registered"
    /\ recordCall' = "select"
    /\ waited' = 0
    /\ UNCHANGED <<trackPc, medias, strm, trackLog, strmWrites>>

\* one second passes while the caller waits
RecordFromPeerConnection_Tick ==
    /\ UNCHANGED <<muxVars, fanVars, segVars, reoVars, loopVars, clkVars, supVars, ctorVars>>
    /\ recordCall = "select"
    /\ waited < TrackWait
    /\ waited' = waited + 1
    /\ UNCHANGED <<recordCall, trackPc, medias, strm, trackLog, strmWrites>>

\* lines 339-340: case <-time.After(5 * time.Second): return the error
RecordFromPeerConnection_Timeout ==
    /\ UNCHANGED <<muxVars, fanVars, segVars, reoVars, loopVars, clkVars, supVars, ctorVars>>
    /\ recordCall = "select"
    /\ waited = TrackWait
    /\ recordCall' = "timeout"
    /\ UNCHANGED <<waited, trackPc, medias, strm, trackLog, strmWrites>>

\* lines 145-202: the callback of track t starts; a track that is not a
\* supported video track returns at once; otherwise its media is appended and
\* the signal sent, which the caller's select (line 338) receives if it is
\* waiting, and the caller returns nil
OnTrack_Enter(t, id, mime) ==
    /\ UNCHANGED <<muxVars, fanVars, segVars, reoVars, loopVars, clkVars, supVars, ctorVars>>
    /\ recordCall # "none"
    /\ trackPc[t] = "idle"
    /\ LET supported == IsSupportedTrack(id, mime)
           sent == supported /\ TrackChanSend(recordCall)
       IN /\ trackPc' = [trackPc EXCEPT ![t] = IF supported THEN "entered" ELSE "returned"]
          /\ medias' = IF supported THEN Append(medias, t) ELSE medias
          /\ recordCall' = IF sent THEN "nil" ELSE recordCall
          /\ trackLog' = Append(trackLog,
                 [track |-> t, id |-> id, mime |-> mime, during |-> recordCall,
                  sent |-> sent])
    /\ UNCHANGED <<waited, strm, strmWrites>>

\* line 205: if strm.Desc == nil
OnTrack_CheckDesc(t) ==
    /\ UNCHANGED <<muxVars, fanVars, segVars, reoVars, loopVars, clkVars, supVars, ctorVars>>
    /\ trackPc[t] = "entered"
    /\ trackPc' = [trackPc EXCEPT ![t] = IF strm.Desc.set THEN "loop" ELSE "setdesc"]
    /\ UNCHANGED <<recordCall, waited, medias, strm, trackLog, strmWrites>>

\* lines 207-209: strm.Desc = &description.Session{Medias: medias}
OnTrack_SetDesc(t) ==
    /\ UNCHANGED <<muxVars, fanVars, segVars, reoVars, loopVars, clkVars, supVars, ctorVars>>
    /\ trackPc[t] = "setdesc"
    /\ strm' = [strm EXCEPT !.Desc = [set |-> TRUE, Medias |-> medias]]
    /\ trackPc' = [trackPc EXCEPT ![t] = "initialize"]
    /\ UNCHANGED <<recordCall, waited, medias, trackLog, strmWrites>>

\* lines 210-233: strm.Initialize(); on an error the callback returns and
\* strm.Desc stays set; otherwise the Recorder is created and initialized
OnTrack_Initialize(t, ok) ==
    /\ UNCHANGED <<muxVars, fanVars, segVars, reoVars, loopVars, clkVars, supVars, ctorVars>>
    /\ trackPc[t] = "initialize"
    /\ strm' = [strm EXCEPT !.initializeCalls = @ + 1,
                            !.initialized = IF ok THEN @ + 1 ELSE @,
                            !.recorders = IF ok THEN @ + 1 ELSE @]
    /\ trackPc' = [trackPc EXCEPT ![t] = IF ok THEN "loop" ELSE "returned"]
    /\ UNCHANGED <<recordCall, waited, medias, trackLog, strmWrites>>

\* lines 280-333, one packet that reaches the write: if strm.Desc != nil
\* { strm.WriteRTPPacket(medi, ...) }
OnTrack_WriteRTPPacket(t) ==
    /\ UNCHANGED <<muxVars, fanVars, segVars, reoVars, loopVars, clkVars, supVars, ctorVars>>
    /\ trackPc[t] = "loop"
    /\ Len(strmWrites) < MaxStreamWrites
    /\ strmWrites' =
           IF strm.Desc.set
           THEN Append(strmWrites,
                    [medi |-> t, Medias |-> strm.Desc.Medias,
                     initialized |-> strm.initialized])
           ELSE strmWrites
    /\ UNCHANGED <<recordCall, waited, trackPc, medias, strm, trackLog>>

\* line 281-283: ReadRTP fails (the track ended), the callback returns
OnTrack_Return(t) ==
    /\ UNCHANGED <<muxVars, fanVars, segVars, reoVars, loopVars, clkVars, supVars, ctorVars>>
    /\ trackPc[t] = "loop"
    /\ trackPc' = [trackPc EXCEPT ![t] = "returned"]
    /\ UNCHANGED <<recordCall, waited, medias, strm, trackLog, strmWrites>>

IdleTrk ==
    /\ recordCall = "none" /\ waited = 0
    /\ trackPc = [t \in Tracks |-> "idle"]
    /\ medias = <<>> /\ strm = NewStream
    /\ trackLog = <<>> /\ strmWrites = <<>>

(***************************************************************************)
(* The parts a specification does not exercise stay as they are here.     *)
(***************************************************************************)
IdleFan == readers = <<>> /\ units = <<>>
IdleSeg ==
    /\ segmentDuration = 0 /\ curSegment = <<>> /\ segments = <<>>
    /\ recState = "none" /\ lastSync = 0 /\ nextDts = 0 /\ cbLog = <<>>
IdleReo ==
    /\ reorderer = <<>> /\ seqBase = 0 /\ fed = <<>> /\ delivered = <<>>
    /\ lastResult = <<>>
IdleLoop ==
    /\ variant = "none" /\ srReceived = FALSE /\ written = <<>>
    /\ emptySeqs = {} /\ tsBase = 0 /\ otherSsrc = {} /\ remoteSSRC = 0
    /\ firstRTPTime = 0 /\ ptsLog = <<>>
IdleClk == rec2Log = <<>> /\ rtcpReceiver = <<>> /\ ntpLog = <<>>
IdleSup ==
    /\ recVariant = "none" /\ terminate = "open" /\ done = "open"
    /\ currentInstance = 0 /\ instances = <<>> /\ runPc = "none"
    /\ waitOn = 0 /\ timer = 0 /\ closePc = "idle" /\ recordPc = "idle"
    /\ supLog = <<>>

(***************************************************************************)
(* SpecMux: one writer, fed any packets, then closed.                      *)
(***************************************************************************)
Writers == {"MP4Writer", "RTPRecorder", "MP4WriterProc"}

InitMux ==
    /\ muxer = IF writer = "RTPRecorder" THEN NilMuxer ELSE NewMuxer
    /\ h264DTSExtractor = NilExtractor
    /\ sps = 0
    /\ pps = 0
    /\ firstTimestamp = NilTimestamp
    /\ proc = NewProcessor
    /\ emitted = <<>>
    /\ calls = 0
    /\ lastPkt = NilPacket
    /\ lastErr = "nil"
    /\ file = [state |-> "open", flushed |-> FALSE, finalDTS |-> NoFinalDTS]

SpecMuxInit ==
    /\ writer \in Writers
    /\ InitMux
    /\ IdleFan /\ IdleSeg /\ IdleReo /\ IdleLoop /\ IdleClk /\ IdleSup /\ IdleCtor /\ IdleTrk

SpecMuxNext ==
    \/ \E pkt \in Packets : MP4Writer_WriteRTPPacket(pkt)
    \/ \E pkt \in Packets : RTPRecorder_WriteRTPPacket(pkt)
    \/ \E pkt \in Packets : MP4WriterProc_WriteRTPPacket(pkt)
    \/ MP4Writer_Close
    \/ RTPRecorder_Close

SpecMux == SpecMuxInit /\ [][SpecMuxNext]_vars

IdleMux == writer = "none" /\ InitMux

(***************************************************************************)
(* SpecParams: an RTPRecorder fed H264 packets, each a whole NAL unit,     *)
(* among them SPS and PPS packets with changing content, then closed.      *)
(***************************************************************************)
ParamRunPackets ==
    {pkt \in Packets :
        /\ pkt.PayloadType = PtH264
        /\ pkt.kind \in {"idr", "slice", "sps", "pps"}
        /\ pkt.Timestamp \in {0, 1}}

SpecParamsInit ==
    /\ writer = "RTPRecorder"
    /\ InitMux
    /\ IdleFan /\ IdleSeg /\ IdleReo /\ IdleLoop /\ IdleClk /\ IdleSup /\ IdleCtor /\ IdleTrk

SpecParamsNext ==
    \/ \E pkt \in ParamRunPackets : RTPRecorder_WriteRTPPacket(pkt)
    \/ RTPRecorder_Close

SpecParams == SpecParamsInit /\ [][SpecParamsNext]_vars

(***************************************************************************)
(* SpecOwn: the MP4Writer of src/unnamed/part_002 and a caller that reuses *)
(* its packet objects between the calls.                                   *)
(***************************************************************************)
SpecOwnInit ==
    /\ writer = "MP4WriterProc"
    /\ InitMux
    /\ IdleFan /\ IdleSeg /\ IdleReo /\ IdleLoop /\ IdleClk /\ IdleSup /\ IdleCtor /\ IdleTrk

SpecOwnNext ==
    \/ \E pkt \in Packets : MP4WriterProc_WriteRTPPacket(pkt)
    \/ \E ts \in Timestamps : Caller_ChangesPacket(ts)
    \/ MP4Writer_Close

SpecOwn == SpecOwnInit /\ [][SpecOwnNext]_vars

(***************************************************************************)
(* SpecMuxer: MuxerMP4 of src/rtptomp4/writer.go called directly, on one   *)
(* track that WriteInit and SetTrack have made current.  The dts values    *)
(* are those a caller derives from a 32-bit RTP timestamp, small negative  *)
(* ones included; emitted records the arguments of the WriteSample calls.  *)
(***************************************************************************)
\* WriteSample and WriteFinalDTS calls per run
MaxMuxerCalls == 3

\* the dts passed to the muxer; the last one is the first above the range of
\* an int32 (callers pass RTP timestamps, which are uint32)
DtsValues == {-2, -1, 0, 1, 3, TsMod \div 2}
PtsOffsets == {0, 2}

\* lines 252-288
MuxerMP4_WriteSample(dts, ptsOffset, isNonSyncSample) ==
    /\ UNCHANGED <<fanVars, segVars, reoVars, loopVars, clkVars, supVars, ctorVars, trkVars>>
    /\ writer = "MuxerMP4"
    /\ file.state = "open"
    /\ calls < MaxMuxerCalls
    /\ calls' = calls + 1
    /\ muxer' = WriteSample(muxer, dts, ptsOffset, isNonSyncSample, 1)
    /\ emitted' = Append(emitted,
                      Emit(1, dts + ptsOffset, dts, ptsOffset, isNonSyncSample))
    /\ UNCHANGED <<writer, h264DTSExtractor, sps, pps, firstTimestamp, proc,
                   lastPkt, lastErr, file>>

\* lines 290-296
MuxerMP4_WriteFinalDTS(dts) ==
    /\ UNCHANGED <<fanVars, segVars, reoVars, loopVars, clkVars, supVars, ctorVars, trkVars>>
    /\ writer = "MuxerMP4"
    /\ file.state = "open"
    /\ calls < MaxMuxerCalls
    /\ calls' = calls + 1
    /\ IF WriteFinalDTSPanics(muxer)
       THEN /\ file' = [file EXCEPT !.state = "panic"]
            /\ UNCHANGED muxer
       ELSE /\ muxer' = WriteFinalDTS(muxer, dts)
            /\ file' = [file EXCEPT !.finalDTS = FinalDTS(dts)]
    /\ UNCHANGED <<writer, h264DTSExtractor, sps, pps, firstTimestamp, proc,
                   emitted, lastPkt, lastErr>>

SpecMuxerInit ==
    /\ writer = "MuxerMP4"
    /\ muxer = SetTrack(WriteInit(NewMuxer,
                            <<[ID |-> 1, Codec |-> getCodecForPayloadType(PtH264)]>>), 1)
    /\ h264DTSExtractor = NilExtractor
    /\ sps = 0
    /\ pps = 0
    /\ firstTimestamp = NilTimestamp
    /\ proc = NewProcessor
    /\ emitted = <<>>
    /\ calls = 0
    /\ lastPkt = NilPacket
    /\ lastErr = "nil"
    /\ file = [state |-> "open", flushed |-> FALSE, finalDTS |-> NoFinalDTS]
    /\ IdleFan /\ IdleSeg /\ IdleReo /\ IdleLoop /\ IdleClk /\ IdleSup /\ IdleCtor /\ IdleTrk

SpecMuxerNext ==
    \/ \E dts \in DtsValues, ptsOffset \in PtsOffsets, isNonSyncSample \in BOOLEAN :
           MuxerMP4_WriteSample(dts, ptsOffset, isNonSyncSample)
    \/ \E dts \in DtsValues : MuxerMP4_WriteFinalDTS(dts)

SpecMuxer == SpecMuxerInit /\ [][SpecMuxerNext]_vars

(***************************************************************************)
(* Stream fan-out (package stream, section 4.6 of the specification): one  *)
(* writer, the ingest, and one bounded queue and one worker per reader.    *)
(***************************************************************************)
\* units ingested per run
MaxUnits == 4
\* Stream.WriteQueueSize of the model; the recorders set 512 and 1500
WriteQueueSize == 2

Readers == {"A", "B", "C"}

NewReader == [subscribed |-> TRUE, failed |-> FALSE, queue |-> <<>>, got |-> <<>>]

\* fault model of Enqueue: a full queue drops its oldest unit and the reader stays
EnqueueDropsOldest(rd, u) ==
    IF ~rd.subscribed THEN rd
    ELSE IF Len(rd.queue) >= WriteQueueSize
         THEN [rd EXCEPT !.queue = Append(Tail(@), u)]
         ELSE [rd EXCEPT !.queue = Append(@, u)]

\* the reader after the writer offered it unit u: a full queue evicts the reader
Enqueue(rd, u) ==
    IF ~rd.subscribed THEN rd
    ELSE IF Len(rd.queue) >= WriteQueueSize
         THEN [rd EXCEPT !.subscribed = FALSE, !.failed = TRUE]
         ELSE [rd EXCEPT !.queue = Append(@, u)]

\* fault model of WriteWaits: the writer waits while a reader's queue is full
WriteWaitsForFullReader(rds) ==
    \E r \in DOMAIN rds : rds[r].subscribed /\ Len(rds[r].queue) >= WriteQueueSize

\* whether the write call has to wait for a reader: it never has to
WriteWaits(rds) == FALSE

\* write_rtp_packet for a packet that completes a unit: the unit is offered to
\* every subscribed reader
Stream_WriteRTPPacket ==
    /\ UNCHANGED <<muxVars, segVars, reoVars, loopVars, clkVars, supVars, ctorVars, trkVars>>
    /\ Len(units) < MaxUnits
    /\ ~WriteWaits(readers)
    /\ LET u == Len(units) + 1
       IN /\ units' = Append(units, u)
          /\ readers' = [r \in Readers |-> Enqueue(readers[r], u)]

\* the worker of reader r takes the unit at the head of its queue and runs the
\* callback on it; a callback error ends that reader, and only that one
Reader_Dequeue(r) ==
    /\ UNCHANGED <<muxVars, segVars, reoVars, loopVars, clkVars, supVars, ctorVars, trkVars>>
    /\ readers[r].subscribed
    /\ readers[r].queue # <<>>
    /\ UNCHANGED units
    /\ \E callbackErr \in BOOLEAN :
         readers' = [readers EXCEPT
                        ![r].got = Append(@, Head(readers[r].queue)),
                        ![r].queue = Tail(@),
                        ![r].subscribed = ~callbackErr]

SpecFanInit ==
    /\ readers = [r \in Readers |-> NewReader]
    /\ units = <<>>
    /\ IdleMux /\ IdleSeg /\ IdleReo /\ IdleLoop /\ IdleClk /\ IdleSup /\ IdleCtor /\ IdleTrk

SpecFanNext ==
    \/ Stream_WriteRTPPacket
    \/ \E r \in Readers : Reader_Dequeue(r)

SpecFan == SpecFanInit /\ [][SpecFanNext]_vars

\* every reader has a worker of its own that runs whenever its queue holds a unit
SpecFanFair == SpecFan /\ \A r \in Readers : WF_vars(Reader_Dequeue(r))

(***************************************************************************)
(* Segment rotation of the recorder (package recorder of the repository,   *)
(* sections 4.7 and 4.8 of the specification).  Time is counted in ticks;  *)
(* the source delivers one video sample per tick.                          *)
(***************************************************************************)
\* samples the source delivers per run
MaxFrames == 8
\* ticks in one second
TicksPerSecond == 2
\* max_gop_duration: the longest distance between two sync samples, in ticks
MaxGop == 3
\* write errors per run
MaxWriteErrors == 1
\* samples the source delivers per run with write errors
MaxCbFrames == 6

Seconds(n) == n * TicksPerSecond

\* the values of Recorder.SegmentDuration the model runs with
SegmentDurations == {Seconds(2), Seconds(2) + 1}

NoSegment == <<>>

\* what the source may deliver at a tick: a non-sync sample, a sync sample, or
\* a sync sample that carries changed track parameters
SampleKinds ==
    {[sync |-> FALSE, changed |-> FALSE],
     [sync |-> TRUE, changed |-> FALSE],
     [sync |-> TRUE, changed |-> TRUE]}

\* DTS elapsed since the start of segment seg when sample s arrives
Elapsed(seg, s) == s.dts - seg[1].dts

\* fault model of RotationDue: the sample need not be a sync sample
RotationDueAnySample(seg, s, sd) == Elapsed(seg, s) >= sd \/ s.changed

\* fault model of RotationDue: the segment has to be older than SegmentDuration
RotationDueLate(seg, s, sd) == s.sync /\ (Elapsed(seg, s) > sd \/ s.changed)

\* the rotation condition: a sync sample, and the segment is old enough or
\* the track parameters changed
RotationDue(seg, s, sd) == s.sync /\ (Elapsed(seg, s) >= sd \/ s.changed)

ClosedSegment(seg, end, by) == [samples |-> seg, end |-> end, closedBy |-> by]

\* the segments a write error has closed so far
WriteErrors == Cardinality({i \in 1..Len(segments) : segments[i].closedBy = "error"})

\* on_segment_create(path) for the segment opened as number id
CreateCallback(id) == <<[cb |-> "create", seg |-> id]>>

\* fault model of CompleteCallback: it is invoked without an open segment too
CompleteCallbackAlways(seg, id, end) ==
    <<[cb |-> "complete", seg |-> id,
       duration |-> IF seg = NoSegment THEN 0 ELSE end - seg[1].dts]>>

\* on_segment_complete(path, duration) when the segment that is open, if any,
\* is closed
CompleteCallback(seg, id, end) ==
    IF seg = NoSegment THEN <<>>
    ELSE <<[cb |-> "complete", seg |-> id, duration |-> end - seg[1].dts]>>

\* the number under which the current segment was opened
CurSegmentId == Len(segments) + 1

\* the recorder takes one sample of the video track
Recorder_WriteSample(k) ==
    /\ UNCHANGED <<muxVars, fanVars, reoVars, loopVars, clkVars, supVars, ctorVars, trkVars>>
    /\ recState = "running"
    /\ nextDts < MaxFrames
    /\ k.sync \/ nextDts - lastSync < MaxGop
    /\ nextDts' = nextDts + 1
    /\ lastSync' = IF k.sync THEN nextDts ELSE lastSync
    /\ UNCHANGED <<segmentDuration, recState>>
    /\ LET s == [dts |-> nextDts, sync |-> k.sync, changed |-> k.changed]
       IN IF curSegment = NoSegment
          THEN /\ curSegment' = IF s.sync THEN <<s>> ELSE NoSegment
               /\ cbLog' = IF s.sync THEN cbLog \o CreateCallback(CurSegmentId)
                           ELSE cbLog
               /\ UNCHANGED segments
          ELSE IF RotationDue(curSegment, s, segmentDuration)
               THEN /\ segments' = Append(segments,
                           ClosedSegment(curSegment, s.dts,
                               IF Elapsed(curSegment, s) >= segmentDuration
                               THEN "duration" ELSE "params"))
                    /\ curSegment' = <<s>>
                    /\ cbLog' = cbLog
                                  \o CompleteCallback(curSegment, CurSegmentId, s.dts)
                                  \o CreateCallback(CurSegmentId + 1)
               ELSE /\ curSegment' = Append(curSegment, s)
                    /\ UNCHANGED <<segments, cbLog>>

\* Close: the current segment ends with its last sample
Recorder_Close ==
    /\ UNCHANGED <<muxVars, fanVars, reoVars, loopVars, clkVars, supVars, ctorVars, trkVars>>
    /\ recState \in {"running", "failed"}
    /\ recState' = "closed"
    /\ UNCHANGED <<segmentDuration, lastSync, nextDts>>
    /\ curSegment' = NoSegment
    /\ segments' = IF curSegment = NoSegment THEN segments
                   ELSE Append(segments, ClosedSegment(curSegment, nextDts, "close"))
    /\ cbLog' = cbLog \o CompleteCallback(curSegment, CurSegmentId, nextDts)

\* a write to the file of the current segment fails: the segment is closed as
\* it is and the instance is marked failed
Recorder_WriteFails ==
    /\ UNCHANGED <<muxVars, fanVars, reoVars, loopVars, clkVars, supVars, ctorVars, trkVars>>
    /\ recState = "running"
    /\ curSegment # NoSegment
    /\ WriteErrors < MaxWriteErrors
    /\ recState' = "failed"
    /\ UNCHANGED <<segmentDuration, lastSync, nextDts>>
    /\ curSegment' = NoSegment
    /\ segments' = Append(segments, ClosedSegment(curSegment, nextDts, "error"))
    /\ cbLog' = cbLog \o CompleteCallback(curSegment, CurSegmentId, nextDts)

\* the supervisor replaces the failed instance by a new one, which has no
\* segment until a sync sample arrives
Recorder_Restart ==
    /\ UNCHANGED <<muxVars, fanVars, reoVars, loopVars, clkVars, supVars, ctorVars, trkVars>>
    /\ recState = "failed"
    /\ recState' = "running"
    /\ UNCHANGED <<segmentDuration, curSegment, segments, lastSync, nextDts, cbLog>>

SpecSegInit ==
    /\ segmentDuration \in SegmentDurations
    /\ curSegment = NoSegment
    /\ segments = <<>>
    /\ recState = "running"
    /\ lastSync = 0
    /\ nextDts = 0
    /\ cbLog = <<>>
    /\ IdleMux /\ IdleFan /\ IdleReo /\ IdleLoop /\ IdleClk /\ IdleSup /\ IdleCtor /\ IdleTrk

SpecSegNext ==
    \/ \E k \in SampleKinds : Recorder_WriteSample(k)
    \/ Recorder_Close

SpecSeg == SpecSegInit /\ [][SpecSegNext]_vars

\* SpecCb: the same recorder, on a shorter input, with write errors and the
\* restarts after them
Recorder_WriteSampleCb(k) == nextDts < MaxCbFrames /\ Recorder_WriteSample(k)

SpecCbNext ==
    \/ \E k \in SampleKinds : Recorder_WriteSampleCb(k)
    \/ Recorder_Close
    \/ Recorder_WriteFails
    \/ Recorder_Restart

SpecCb == SpecSegInit /\ [][SpecCbNext]_vars

(***************************************************************************)
(* rtpreorderer.Reorderer of gortsplib (section 4.2 of the specification), *)
(* created by RecordFromPeerConnection for every track.  Process is a      *)
(* function of the reorderer and the packet; a packet is its sequence      *)
(* number.                                                                 *)
(***************************************************************************)
\* packets fed to a reorderer per run
MaxFed == 5

\* the reorder window
bufferSize == 64
\* packets in a row before the expected one after which the reorderer resets
negativeThreshold == 30

SeqMod == 2 ^ 16
\* uint16(x)
Uint16(x) == x % SeqMod
\* fault model of Int16: the difference is not reduced to 16 bits
Int16Unreduced(x) == x
\* int16(x)
Int16(x) == LET m == x % SeqMod IN IF m >= SeqMod \div 2 THEN m - SeqMod ELSE m

NoPacket == <<>>

NewReorderer ==
    [initialized |-> FALSE, expectedSeqNum |-> 0,
     buffer |-> [p \in 0..(bufferSize - 1) |-> NoPacket],
     absPos |-> 0, negativeCount |-> 0]

NoResult == [packets |-> <<>>, lost |-> 0]

\* position of the packet relative to the expected one, as a signed 16 bit number
RelPos(seq, expectedSeqNum) == Int16(seq - expectedSeqNum)

\* fault model of BufferIsFull: the window is one packet longer
BufferIsFullStrict(relPos) == relPos > bufferSize

\* "there's a missing packet and buffer is full"
BufferIsFull(relPos) == relPos >= bufferSize

\* the slot of the buffer i places after absPos
Slot(r, i) == (r.absPos + i) % bufferSize

\* the buffered packets, oldest first
Buffered(r) ==
    LET all == [i \in 1..bufferSize |-> r.buffer[Slot(r, i - 1)]]
        kept == SelectSeq(all, LAMBDA e : e # NoPacket)
    IN [i \in 1..Len(kept) |-> kept[i][1]]

\* number of packets delivered when the expected one arrives: it and the
\* buffered ones that follow it without a gap
Contiguous(r) ==
    CHOOSE n \in 1..bufferSize :
        /\ r.buffer[Slot(r, n)] = NoPacket
        /\ \A m \in 1..(n - 1) : r.buffer[Slot(r, m)] # NoPacket

\* Reorderer.Process(pkt): the reorderer afterwards, the packets returned and
\* the number of lost packets
Process(r, seq) ==
    LET relPos == RelPos(seq, r.expectedSeqNum)
    IN IF ~r.initialized
       THEN [r |-> [r EXCEPT !.initialized = TRUE, !.expectedSeqNum = Uint16(seq + 1)],
             packets |-> <<seq>>, lost |-> 0]
       ELSE IF relPos < 0
       THEN IF r.negativeCount + 1 > negativeThreshold
            THEN [r |-> [r EXCEPT !.negativeCount = 0,
                                  !.buffer = NewReorderer.buffer,
                                  !.expectedSeqNum = Uint16(seq + 1)],
                  packets |-> <<seq>>, lost |-> 0]
            ELSE [r |-> [r EXCEPT !.negativeCount = @ + 1],
                  packets |-> <<>>, lost |-> 0]
       ELSE IF BufferIsFull(relPos)
       THEN LET old == Buffered(r)
                n == 1 + Len(old)
            IN [r |-> [r EXCEPT !.negativeCount = 0,
                                !.buffer = NewReorderer.buffer,
                                !.expectedSeqNum = Uint16(seq + 1)],
                packets |-> Append(old, seq), lost |-> relPos - n + 1]
       ELSE IF relPos # 0
       THEN IF r.buffer[Slot(r, relPos)] # NoPacket
            THEN [r |-> [r EXCEPT !.negativeCount = 0],
                  packets |-> <<>>, lost |-> 0]
            ELSE [r |-> [r EXCEPT !.negativeCount = 0,
                                  !.buffer[Slot(r, relPos)] = <<seq>>],
                  packets |-> <<>>, lost |-> 0]
       ELSE LET n == Contiguous(r)
            IN [r |-> [r EXCEPT
                         !.negativeCount = 0,
                         !.buffer = [p \in 0..(bufferSize - 1) |->
                                        IF \E i \in 1..(n - 1) : p = Slot(r, i)
                                        THEN NoPacket ELSE r.buffer[p]],
                         !.absPos = Slot(r, n),
                         !.expectedSeqNum = Uint16(seq + n)],
                packets |-> <<seq>> \o [i \in 1..(n - 1) |-> r.buffer[Slot(r, i)][1]],
                lost |-> 0]

\* the sequence numbers the runs start from: one in mid-range, one two below
\* the wrap
SeqBases == {100, SeqMod - 2}
\* distances of the fed packets from the first sequence number
ReorderOffsets == {0, 1, 2, 3, bufferSize + 2, bufferSize + 3, bufferSize + 4}

SeqAt(off) == Uint16(seqBase + off)

\* one call of Process
Reorderer_Process(off) ==
    /\ UNCHANGED <<muxVars, fanVars, segVars, loopVars, clkVars, supVars, ctorVars, trkVars>>
    /\ variant = "none"
    /\ Len(fed) < MaxFed
    /\ UNCHANGED seqBase
    /\ LET res == Process(reorderer, SeqAt(off))
       IN /\ reorderer' = res.r
          /\ fed' = Append(fed, SeqAt(off))
          /\ delivered' = delivered \o res.packets
          /\ lastResult' = [packets |-> res.packets, lost |-> res.lost]

InitReorderer ==
    /\ reorderer = NewReorderer
    /\ fed = <<>>
    /\ delivered = <<>>
    /\ lastResult = NoResult

SpecReorderInit ==
    /\ seqBase \in SeqBases
    /\ InitReorderer
    /\ variant = "none" /\ srReceived = FALSE /\ written = <<>>
    /\ emptySeqs = {} /\ tsBase = 0 /\ otherSsrc = {} /\ remoteSSRC = 0
    /\ firstRTPTime = 0 /\ ptsLog = <<>>
    /\ IdleMux /\ IdleFan /\ IdleSeg /\ IdleClk /\ IdleSup /\ IdleCtor /\ IdleTrk

SpecReorderNext == \E off \in ReorderOffsets : Reorderer_Process(off)

SpecReorder == SpecReorderInit /\ [][SpecReorderNext]_vars

(***************************************************************************)
(* The RTP loop that RecordFromPeerConnection starts for a track, in the   *)
(* two copies of the source that differ in it:                             *)
(*   "webrtc_recorder.go"  src/recorder/webrtc_recorder.go, lines 280-333  *)
(*   "part_001"            src/unnamed/part_001, lines 279-319             *)
(* and the RTCP routine next to it, which hands Sender Reports to the      *)
(* rtcpReceiver.  strm.Desc is set since the stream was initialized before  *)
(* the track callback was added.  Some packets of a run have an empty      *)
(* payload (padding, keep-alive), some come from another SSRC than the     *)
(* first one, which is what makes rtcpReceiver.ProcessPacket return an     *)
(* error.  The RTP timestamp of a packet follows its sequence number.      *)
(***************************************************************************)
\* packets read from the track per run
MaxLoopPackets == 5

LoopVariants == {"webrtc_recorder.go", "part_001"}
LoopOffsets == {0, 1, 2, 3, 4}
\* which packets of a run have an empty payload
EmptyPayloads == {{}, {SeqAt(1)}, {SeqAt(0), SeqAt(3)}}
\* which packets of a run carry another SSRC
OtherSsrcs == {{}, {SeqAt(2)}}
\* the timestamp of the packet with the first sequence number of a run
TsBases == {0, 1, TsMod - 2}

\* pkt.Timestamp
TimestampOf(pkt) == Uint32(tsBase + Uint16(pkt - seqBase))
\* pkt.SSRC
SsrcOf(pkt) == IF pkt \in otherSsrc THEN 2 ELSE 1

\* rtcpReceiver.ProcessPacket: the first packet sets the remote SSRC, a later
\* packet of another SSRC is an error
ProcessPacket(ssrc, pkt) ==
    IF ssrc = 0 THEN [remoteSSRC |-> SsrcOf(pkt), err |-> FALSE]
    ELSE [remoteSSRC |-> ssrc, err |-> SsrcOf(pkt) # ssrc]

\* rtcpReceiver.PacketNTP: available once a Sender Report was processed
PacketNTPAvailable(sr) == sr

\* len(pkt.Payload) == 0
PayloadIsEmpty(pkt) == pkt \in emptySeqs

\* webrtc_recorder.go lines 303-305 and 314-316: if firstRTPTime == 0
SetFirstRTPTime(v, first, pkt) ==
    IF v = "webrtc_recorder.go" /\ first = 0 THEN TimestampOf(pkt) ELSE first

\* the pts passed with a packet.  webrtc_recorder.go lines 306 and 326:
\* (pkt.Timestamp - firstRTPTime) / clockRate seconds, kept in clock ticks;
\* part_001 line 312: the NTP time of the packet just read
LoopPTS(v, q, first, pkt) ==
    IF v = "webrtc_recorder.go"
    THEN [anchor |-> "firstRTPTime", ticks |-> Uint32(TimestampOf(q) - first)]
    ELSE [anchor |-> "ntp", ticks |-> TimestampOf(pkt)]

\* the packets one iteration passes to strm.WriteRTPPacket, in order: none
\* after an error of ProcessPacket; without NTP time the packet just read
\* (webrtc_recorder.go) or nothing (part_001); with NTP time the packets of
\* the reorderer that have a payload
LoopWrites(v, perr, avail, pkt, packets) ==
    IF perr THEN <<>>
    ELSE IF ~avail
    THEN IF v = "webrtc_recorder.go" THEN <<pkt>> ELSE <<>>
    ELSE SelectSeq(packets, LAMBDA q : ~PayloadIsEmpty(q))

\* one iteration of the loop: ReadRTP, reorderer.Process, ProcessPacket,
\* PacketNTP, firstRTPTime, writes
TrackLoop_ReadRTP(off) ==
    /\ UNCHANGED <<muxVars, fanVars, segVars, clkVars, supVars, ctorVars, trkVars>>
    /\ variant \in LoopVariants
    /\ Len(fed) < MaxLoopPackets
    /\ UNCHANGED <<seqBase, variant, srReceived, emptySeqs, tsBase, otherSsrc>>
    /\ LET pkt == SeqAt(off)
           res == Process(reorderer, pkt)
           pp == ProcessPacket(remoteSSRC, pkt)
           avail == PacketNTPAvailable(srReceived)
           first == IF pp.err THEN firstRTPTime
                    ELSE SetFirstRTPTime(variant, firstRTPTime, pkt)
           writes == LoopWrites(variant, pp.err, avail, pkt, res.packets)
       IN /\ reorderer' = res.r
          /\ fed' = Append(fed, pkt)
          /\ delivered' = delivered \o res.packets
          /\ lastResult' = [packets |-> res.packets, lost |-> res.lost]
          /\ remoteSSRC' = pp.remoteSSRC
          /\ firstRTPTime' = first
          /\ written' = written \o writes
          /\ ptsLog' = ptsLog \o
                 [i \in 1..Len(writes) |->
                     [Timestamp |-> TimestampOf(writes[i]),
                      pts |-> LoopPTS(variant, writes[i], first, pkt),
                      fallback |-> ~avail]]

\* the RTCP routine reads a Sender Report: rtcpReceiver.ProcessSenderReport
RTCP_ProcessSenderReport ==
    /\ UNCHANGED <<muxVars, fanVars, segVars, reoVars, clkVars, supVars, ctorVars, trkVars>>
    /\ variant \in LoopVariants
    /\ ~srReceived
    /\ srReceived' = TRUE
    /\ UNCHANGED <<variant, written, emptySeqs, tsBase, otherSsrc, remoteSSRC,
                   firstRTPTime, ptsLog>>

SpecLoopInit ==
    /\ variant \in LoopVariants
    /\ srReceived = FALSE
    /\ written = <<>>
    /\ seqBase = 100
    /\ emptySeqs \in EmptyPayloads
    /\ tsBase \in TsBases
    /\ otherSsrc \in OtherSsrcs
    /\ remoteSSRC = 0
    /\ firstRTPTime = 0
    /\ ptsLog = <<>>
    /\ InitReorderer
    /\ IdleMux /\ IdleFan /\ IdleSeg /\ IdleClk /\ IdleSup /\ IdleCtor /\ IdleTrk

SpecLoopNext ==
    \/ \E off \in LoopOffsets : TrackLoop_ReadRTP(off)
    \/ RTCP_ProcessSenderReport

SpecLoop == SpecLoopInit /\ [][SpecLoopNext]_vars

(***************************************************************************)
(* RTPRecorder2 of src/recorder/webrtc_recorder.go (lines 421-470): every  *)
(* packet is stamped from its own RTP timestamp and written to the stream. *)
(***************************************************************************)
\* packets written per run of an RTPRecorder2
MaxStampedPackets == 3

\* every value of the uint32 Timestamp field of a packet
AllTimestamps == 0..(TsMod - 1)

\* lines 458-464: referenceTime plus rtpTimestamp / clockRate seconds; the
\* reference and the offset (in clock ticks) are kept apart
RTPToNTP(rtpTimestamp, referenceTime) ==
    [ref |-> referenceTime, ticks |-> rtpTimestamp]

\* lines 467-470: return int64(rtpTimestamp)
RTPToPTS(rtpTimestamp) == rtpTimestamp

\* lines 444-455; time.Now() is the position of the call in the run
RTPRecorder2_WriteRTPPacket(ts) ==
    /\ UNCHANGED <<muxVars, fanVars, segVars, reoVars, loopVars, supVars, ctorVars, trkVars>>
    /\ Len(rec2Log) < MaxStampedPackets
    /\ LET ntpTime == RTPToNTP(ts, Len(rec2Log))
           pts == RTPToPTS(ts)
       IN  rec2Log' = Append(rec2Log,
                          [Timestamp |-> ts, ntp |-> ntpTime, pts |-> pts])
    /\ UNCHANGED <<rtcpReceiver, ntpLog>>

SpecPtsInit ==
    /\ IdleClk
    /\ IdleMux /\ IdleFan /\ IdleSeg /\ IdleReo /\ IdleLoop /\ IdleSup /\ IdleCtor /\ IdleTrk

SpecPtsNext ==
    \E ts \in AllTimestamps : RTPRecorder2_WriteRTPPacket(ts)

SpecPts == SpecPtsInit /\ [][SpecPtsNext]_vars

(***************************************************************************)
(* rtcpreceiver.RTCPReceiver of gortsplib, as RecordFromPeerConnection     *)
(* uses it (src/recorder/webrtc_recorder.go lines 236-299): Sender Reports *)
(* arrive on the RTCP goroutine, PacketNTP is asked for every RTP packet.  *)
(***************************************************************************)
\* Sender Reports and PacketNTP calls per run
MaxClockEvents == 4

\* clock rate of the video track (H264)
ClockRate == 90000

\* NTP times carried by the Sender Reports, in nanoseconds
NtpTimes == {1000000, 2000000}
SenderReports == [NTPTime : NtpTimes, RTPTime : Timestamps]

\* Go's integer division truncates towards zero
GoDiv(a, b) == IF a >= 0 THEN a \div b ELSE -((-a) \div b)

\* (time.Duration(timeDiff) * time.Second) / time.Duration(ClockRate), with
\* time.Second = 10^9 ns; both sides are reduced by 10^4
TicksToDuration(timeDiff) ==
    GoDiv(timeDiff * (1000000000 \div 10000), ClockRate \div 10000)

NewRTCPReceiver ==
    [firstSenderReportReceived |-> FALSE,
     lastSenderReportTimeNTP |-> 0,
     lastSenderReportTimeRTP |-> 0]

ProcessSenderReport(rr, sr) ==
    [firstSenderReportReceived |-> TRUE,
     lastSenderReportTimeNTP |-> sr.NTPTime,
     lastSenderReportTimeRTP |-> sr.RTPTime]

TimeDiffUnsigned(ts, srRTP) == Uint32(ts - srRTP)

\* timeDiff := int32(ts - rr.lastSenderReportTimeRTP)
TimeDiff(ts, srRTP) == Int32(ts - srRTP)

PacketNTP(rr, ts) ==
    IF ~rr.firstSenderReportReceived
    THEN [avail |-> FALSE, ntp |-> 0]
    ELSE [avail |-> TRUE,
          ntp |-> rr.lastSenderReportTimeNTP
                  + TicksToDuration(TimeDiff(ts, rr.lastSenderReportTimeRTP))]

\* line 266: rtcpReceiver.ProcessSenderReport(sr, time.Now())
RTCPReceiver_ProcessSenderReport(sr) ==
    /\ UNCHANGED <<muxVars, fanVars, segVars, reoVars, loopVars, supVars, ctorVars, trkVars>>
    /\ Len(ntpLog) < MaxClockEvents
    /\ rtcpReceiver' = ProcessSenderReport(rtcpReceiver, sr)
    /\ ntpLog' = Append(ntpLog, [op |-> "sr", sr |-> sr])
    /\ UNCHANGED rec2Log

\* line 299: ntp, avail := rtcpReceiver.PacketNTP(pkt.Timestamp)
RTCPReceiver_PacketNTP(ts) ==
    /\ UNCHANGED <<muxVars, fanVars, segVars, reoVars, loopVars, supVars, ctorVars, trkVars>>
    /\ Len(ntpLog) < MaxClockEvents
    /\ ntpLog' = Append(ntpLog,
                     [op |-> "query", ts |-> ts, res |-> PacketNTP(rtcpReceiver, ts)])
    /\ UNCHANGED <<rec2Log, rtcpReceiver>>

SpecNtpInit ==
    /\ rec2Log = <<>>
    /\ rtcpReceiver = NewRTCPReceiver
    /\ ntpLog = <<>>
    /\ IdleMux /\ IdleFan /\ IdleSeg /\ IdleReo /\ IdleLoop /\ IdleSup /\ IdleCtor /\ IdleTrk

SpecNtpNext ==
    \/ \E sr \in SenderReports : RTCPReceiver_ProcessSenderReport(sr)
    \/ \E ts \in Timestamps : RTCPReceiver_PacketNTP(ts)

SpecNtp == SpecNtpInit /\ [][SpecNtpNext]_vars

(***************************************************************************)
(* WebRTCRecorder: Initialize, the run goroutine (the supervisor), Close   *)
(* and the part of RecordFromPeerConnection that touches currentInstance.  *)
(* Line numbers are those of src/recorder/webrtc_recorder.go.              *)
(*   runPc: "none"    Initialize has not started the goroutine             *)
(*          "start"   top of the for loop, before the first select         *)
(*          "select1" blocked in select {currentInstance.done, terminate}  *)
(*          "select2" blocked in select {time.After(restartPause),         *)
(*                    terminate}                                           *)
(*          "create"  the timer case was taken, the new instance is not    *)
(*                    yet created                                          *)
(*          "exited"  returned; the deferred close(r.done) has run         *)
(* A recorderInstance (package recorder, not part of the sources at hand)  *)
(* is "running" after initialize(), "done" once it has closed its done     *)
(* channel by itself, and "closed" after close(); closes counts the calls  *)
(* of close() on it.                                                       *)
(***************************************************************************)
\* recorderInstances in existence up to which an instance may stop by itself
MaxInstances == 3

\* restartPause (2 * time.Second), in ticks of one second
RestartPause == 2

\* "webrtc_recorder.go" stands for the copies in which RecordFromPeerConnection
\* replaces r.currentInstance (also part_001 and the first file of part_000);
\* "part_000b" is the second file of part_000, which sets the stream of the
\* current instance instead and whose constructor makes no channels
RecVariants == {"webrtc_recorder.go", "part_000b"}

NewInstance(by, withStream) ==
    [by |-> by, state |-> "running", closes |-> 0, stream |-> withStream]

\* recorderInstance.close(): terminate the instance and wait for it
CloseInstance(insts, i) ==
    IF i \in 1..Len(insts)
    THEN [insts EXCEPT ![i].state = "closed", ![i].closes = @ + 1]
    ELSE insts

\* the done channel of instance i is closed
InstanceDone(insts, i) ==
    i \in 1..Len(insts) /\ insts[i].state \in {"done", "closed"}

SupEvent(ev, inst, closed) ==
    [ev |-> ev, inst |-> inst, closed |-> closed, waited |-> timer,
     terminated |-> (terminate = "closed")]

\* the instance the recorder's own goroutines assigned last
LastOwn(insts) ==
    LET S == {i \in 1..Len(insts) : insts[i].by \in {"Initialize", "restart"}}
    IN  IF S = {} THEN 0 ELSE CHOOSE i \in S : \A j \in S : j <= i

\* r.currentInstance read by the run goroutine.  RecordFromPeerConnection
\* writes the field from another goroutine without synchronisation, so the
\* read yields that write or the value the recorder assigned itself.
ReadCurrentInstance ==
    {currentInstance} \cup
        (IF LastOwn(instances) = 0 THEN {} ELSE {LastOwn(instances)})

\* lines 61-87
WebRTCRecorder_Initialize ==
    /\ UNCHANGED <<muxVars, fanVars, segVars, reoVars, loopVars, clkVars, ctorVars, trkVars>>
    /\ recVariant \in RecVariants
    /\ runPc = "none" /\ closePc = "idle"
    /\ Len(instances) < MaxInstances
    /\ terminate' = "open"
    /\ done' = "open"
    /\ instances' = Append(instances, NewInstance("Initialize", FALSE))
    /\ currentInstance' = Len(instances) + 1
    /\ runPc' = "start"
    /\ supLog' = Append(supLog, SupEvent("initialize", Len(instances) + 1, 0))
    /\ UNCHANGED <<recVariant, waitOn, timer, closePc, recordPc>>

\* an instance stops by itself (clean completion or fatal error); a run has
\* no more such stops once MaxInstances instances exist, so that the
\* supervisor is never kept from creating the next one
Instance_Done(i) ==
    /\ UNCHANGED <<muxVars, fanVars, segVars, reoVars, loopVars, clkVars, ctorVars, trkVars>>
    /\ recVariant \in RecVariants
    /\ i \in 1..Len(instances)
    /\ instances[i].state = "running"
    /\ Len(instances) < MaxInstances
    /\ instances' = [instances EXCEPT ![i].state = "done"]
    /\ UNCHANGED <<recVariant, terminate, done, currentInstance, runPc,
                   waitOn, timer, closePc, recordPc, supLog>>

\* lines 100-101: entering the select evaluates r.currentInstance.done once
Run_EnterSelect ==
    /\ UNCHANGED <<muxVars, fanVars, segVars, reoVars, loopVars, clkVars, ctorVars, trkVars>>
    /\ runPc = "start"
    /\ \E i \in ReadCurrentInstance : waitOn' = i
    /\ runPc' = "select1"
    /\ UNCHANGED <<recVariant, terminate, done, currentInstance, instances,
                   timer, closePc, recordPc, supLog>>

\* lines 101-102: case <-r.currentInstance.done: r.currentInstance.close();
\* line 109 arms the timer
Run_SelectDone ==
    /\ UNCHANGED <<muxVars, fanVars, segVars, reoVars, loopVars, clkVars, ctorVars, trkVars>>
    /\ runPc = "select1"
    /\ InstanceDone(instances, waitOn)
    /\ \E i \in ReadCurrentInstance :
        /\ instances' = CloseInstance(instances, i)
        /\ supLog' = Append(supLog, SupEvent("done", waitOn, i))
    /\ timer' = 0
    /\ runPc' = "select2"
    /\ UNCHANGED <<recVariant, terminate, done, currentInstance, waitOn,
                   closePc, recordPc>>

\* lines 103-105 and 97: case <-r.terminate: r.currentInstance.close(); return
Run_SelectTerminate ==
    /\ UNCHANGED <<muxVars, fanVars, segVars, reoVars, loopVars, clkVars, ctorVars, trkVars>>
    /\ runPc = "select1"
    /\ terminate = "closed"
    /\ \E i \in ReadCurrentInstance :
        /\ instances' = CloseInstance(instances, i)
        /\ supLog' = Append(supLog, SupEvent("exit", waitOn, i))
    /\ done' = "closed"
    /\ runPc' = "exited"
    /\ UNCHANGED <<recVariant, terminate, currentInstance, waitOn, timer,
                   closePc, recordPc>>

\* one second passes while the goroutine waits in the second select
Tick ==
    /\ UNCHANGED <<muxVars, fanVars, segVars, reoVars, loopVars, clkVars, ctorVars, trkVars>>
    /\ runPc = "select2"
    /\ timer < RestartPause
    /\ timer' = timer + 1
    /\ UNCHANGED <<recVariant, terminate, done, currentInstance, instances,
                   runPc, waitOn, closePc, recordPc, supLog>>

\* line 109: case <-time.After(r.restartPause); a goroutine blocked in the
\* select is woken by whichever of the two events comes first
Run_TimerFires ==
    /\ UNCHANGED <<muxVars, fanVars, segVars, reoVars, loopVars, clkVars, ctorVars, trkVars>>
    /\ runPc = "select2"
    /\ timer = RestartPause
    /\ terminate = "open"
    /\ runPc' = "create"
    /\ UNCHANGED <<recVariant, terminate, done, currentInstance, instances,
                   waitOn, timer, closePc, recordPc, supLog>>

\* lines 110-111 and 97: case <-r.terminate: return
Run_CooldownTerminate ==
    /\ UNCHANGED <<muxVars, fanVars, segVars, reoVars, loopVars, clkVars, ctorVars, trkVars>>
    /\ runPc = "select2"
    /\ terminate = "closed"
    /\ done' = "closed"
    /\ runPc' = "exited"
    /\ supLog' = Append(supLog, SupEvent("exit", 0, 0))
    /\ UNCHANGED <<recVariant, terminate, currentInstance, instances, waitOn,
                   timer, closePc, recordPc>>

\* lines 114-126: r.currentInstance = &recorderInstance{...}; initialize()
Run_Create ==
    /\ UNCHANGED <<muxVars, fanVars, segVars, reoVars, loopVars, clkVars, ctorVars, trkVars>>
    /\ runPc = "create"
    /\ instances' = Append(instances, NewInstance("restart", FALSE))
    /\ currentInstance' = Len(instances) + 1
    /\ supLog' = Append(supLog, SupEvent("create", Len(instances) + 1, 0))
    /\ runPc' = "start"
    /\ UNCHANGED <<recVariant, terminate, done, waitOn, timer, closePc,
                   recordPc>>

\* lines 90-94: close(r.terminate), then <-r.done.  The constructor of
\* part_000b makes no channels, and closing a nil channel panics.
WebRTCRecorder_Close ==
    /\ UNCHANGED <<muxVars, fanVars, segVars, reoVars, loopVars, clkVars, ctorVars, trkVars>>
    /\ recVariant \in RecVariants
    /\ closePc = "idle"
    /\ IF terminate = "nil"
       THEN /\ closePc' = "panic"
            /\ UNCHANGED <<terminate, supLog>>
       ELSE /\ terminate' = "closed"
            /\ closePc' = "waiting"
            /\ supLog' = Append(supLog, SupEvent("close", currentInstance, 0))
    /\ UNCHANGED <<recVariant, done, currentInstance, instances, runPc,
                   waitOn, timer, recordPc>>

\* line 93: <-r.done has received, Close returns
WebRTCRecorder_CloseReturns ==
    /\ UNCHANGED <<muxVars, fanVars, segVars, reoVars, loopVars, clkVars, ctorVars, trkVars>>
    /\ closePc = "waiting"
    /\ done = "closed"
    /\ closePc' = "returned"
    /\ UNCHANGED <<recVariant, terminate, done, currentInstance, instances,
                   runPc, waitOn, timer, recordPc, supLog>>

\* lines 204-233, the first video track: the stream is initialized (ok says
\* whether strm.Initialize succeeded), a Recorder is created on it and
\* initialized, which creates its instance and its own supervisor, and that
\* instance is stored in r.currentInstance.  In part_000b (lines 331-358 of
\* part_000) the stream is stored in the current instance.
RecordFromPeerConnection_OnTrack(ok) ==
    /\ UNCHANGED <<muxVars, fanVars, segVars, reoVars, loopVars, clkVars, ctorVars, trkVars>>
    /\ recVariant \in RecVariants
    /\ recordPc = "idle"
    /\ IF ~ok
       THEN /\ recordPc' = "failed"
            /\ UNCHANGED <<currentInstance, instances, supLog>>
       ELSE IF recVariant = "part_000b"
       THEN IF currentInstance = 0
            THEN /\ recordPc' = "panic"
                 /\ UNCHANGED <<currentInstance, instances, supLog>>
            ELSE /\ recordPc' = "recording"
                 /\ instances' =
                        [instances EXCEPT ![currentInstance].stream = TRUE]
                 /\ UNCHANGED <<currentInstance, supLog>>
       ELSE /\ Len(instances) < MaxInstances
            /\ recordPc' = "recording"
            /\ instances' =
                   Append(instances, NewInstance("RecordFromPeerConnection", TRUE))
            /\ currentInstance' = Len(instances) + 1
            /\ supLog' = Append(supLog, SupEvent("record", Len(instances) + 1, 0))
    /\ UNCHANGED <<recVariant, terminate, done, runPc, waitOn, timer, closePc>>

\* lines 47-58: NewWebRTCRecorder
SpecSupInit ==
    /\ recVariant \in RecVariants
    /\ terminate = (IF recVariant = "part_000b" THEN "nil" ELSE "open")
    /\ done = (IF recVariant = "part_000b" THEN "nil" ELSE "open")
    /\ currentInstance = 0
    /\ instances = <<>>
    /\ runPc = "none"
    /\ waitOn = 0
    /\ timer = 0
    /\ closePc = "idle"
    /\ recordPc = "idle"
    /\ supLog = <<>>
    /\ IdleMux /\ IdleFan /\ IdleSeg /\ IdleReo /\ IdleLoop /\ IdleClk /\ IdleCtor /\ IdleTrk

SpecSupNext ==
    \/ WebRTCRecorder_Initialize
    \/ \E i \in 1..MaxInstances : Instance_Done(i)
    \/ Run_EnterSelect
    \/ Run_SelectDone
    \/ Run_SelectTerminate
    \/ Tick
    \/ Run_TimerFires
    \/ Run_CooldownTerminate
    \/ Run_Create
    \/ WebRTCRecorder_Close
    \/ WebRTCRecorder_CloseReturns
    \/ \E ok \in BOOLEAN : RecordFromPeerConnection_OnTrack(ok)

SpecSup == SpecSupInit /\ [][SpecSupNext]_vars

\* the run goroutine and a caller whose receive on r.done can proceed are
\* scheduled, and time passes; whether and when Initialize, Close, a track or
\* the end of an instance happen is up to the environment
SpecSupFair ==
    /\ SpecSupInit
    /\ [][SpecSupNext]_vars
    /\ WF_vars(Run_EnterSelect)
    /\ WF_vars(Run_SelectDone)
    /\ WF_vars(Run_SelectTerminate)
    /\ WF_vars(Tick)
    /\ WF_vars(Run_TimerFires)
    /\ WF_vars(Run_CooldownTerminate)
    /\ WF_vars(Run_Create)
    /\ WF_vars(WebRTCRecorder_CloseReturns)

(***************************************************************************)
(* SpecNew: constructor calls, each with any one of its steps failing or   *)
(* none.                                                                   *)
(***************************************************************************)
SpecNewInit ==
    /\ ctor = NilCtor
    /\ built = <<>>
    /\ IdleTrk
    /\ IdleMux /\ IdleFan /\ IdleSeg /\ IdleReo /\ IdleLoop /\ IdleClk /\ IdleSup

SpecNewNext ==
    \/ \E fn \in Constructors :
           \E failAt \in CtorFailures(fn) \cup {"none"} : New_Call(fn, failAt)
    \/ New_Step
    \/ New_StepFails
    \/ New_Return

SpecNew == SpecNewInit /\ [][SpecNewNext]_vars

(***************************************************************************)
(* SpecTracks: one call of RecordFromPeerConnection and the callbacks of   *)
(* the tracks of its peer connection, in any interleaving.                 *)
(***************************************************************************)
SpecTracksInit ==
    /\ IdleTrk
    /\ IdleMux /\ IdleFan /\ IdleSeg /\ IdleReo /\ IdleLoop /\ IdleClk /\ IdleSup
    /\ IdleCtor

SpecTracksNext ==
    \/ RecordFromPeerConnection_Call
    \/ RecordFromPeerConnection_Select
    \/ RecordFromPeerConnection_Tick
    \/ RecordFromPeerConnection_Timeout
    \/ \E t \in Tracks, id \in TrackIDs, mime \in MimeTypes : OnTrack_Enter(t, id, mime)
    \/ \E t \in Tracks : OnTrack_CheckDesc(t)
    \/ \E t \in Tracks : OnTrack_SetDesc(t)
    \/ \E t \in Tracks, ok \in BOOLEAN : OnTrack_Initialize(t, ok)
    \/ \E t \in Tracks : OnTrack_WriteRTPPacket(t)
    \/ \E t \in Tracks : OnTrack_Return(t)

SpecTracks == SpecTracksInit /\ [][SpecTracksNext]_vars

(***************************************************************************)
(* Properties of the file writers (SpecMux).                               *)
(***************************************************************************)
\* C1: the dts values a writer hands to MuxerMP4.WriteSample for one track
\* are strictly increasing from one sample to the next.
C1_DtsStrictlyIncreasing ==
    \A i, j \in 1..Len(emitted) :
        (i < j /\ emitted[i].track = emitted[j].track)
            => emitted[i].dts < emitted[j].dts

\* C2: for every sample a writer hands to MuxerMP4.WriteSample the pts offset
\* is not negative and dts plus pts offset is the PTS, the packet's RTP
\* timestamp.
C2_PtsOffsetConsistent ==
    \A i \in 1..Len(emitted) :
        /\ emitted[i].ptsOffset >= 0
        /\ emitted[i].dts + emitted[i].ptsOffset = emitted[i].pts

\* C3: the first sample a writer has stored for a track is a sync sample:
\* access units before the first random access one never reach the muxer.
C3_FirstSampleIsSync ==
    \A i \in 1..Len(muxer.Tracks) :
        muxer.Tracks[i].Samples # <<>>
            => ~muxer.Tracks[i].Samples[1].IsNonSyncSample

(***************************************************************************)
(* Properties of the stream fan-out (SpecFan, SpecFanFair).                *)
(***************************************************************************)
IsPrefix(s, t) == Len(s) <= Len(t) /\ \A i \in 1..Len(s) : s[i] = t[i]

QueueIsFull(r) == Len(readers[r].queue) >= WriteQueueSize

\* C4: a write is possible in every state, whatever the readers' queues hold,
\* and a write that finds the queue of a subscribed reader full marks that
\* reader failed and removes it; a queue never holds more than WriteQueueSize
\* units.
C4_FullQueueEvictsAndWriteNeverWaits ==
    /\ [](Len(units) < MaxUnits => ENABLED Stream_WriteRTPPacket)
    /\ [](\A r \in Readers : Len(readers[r].queue) <= WriteQueueSize)
    /\ [][units' # units =>
            \A r \in Readers :
                (readers[r].subscribed /\ QueueIsFull(r))
                    => /\ readers'[r].failed
                       /\ ~readers'[r].subscribed
                       /\ Len(units') = Len(units) + 1]_vars

\* a reader was evicted on a full queue and the writer has written on
C4_Witness ==
    \E r \in Readers :
        /\ readers[r].failed
        /\ Len(units) > Len(readers[r].got) + WriteQueueSize + 1

\* C5: what a reader has received is a prefix of the units emitted, so every
\* unit once and in emission order; while it is subscribed, what it received
\* and what waits in its queue are all units emitted; and every unit emitted
\* reaches every reader that stays subscribed, whatever the other readers do.
C5_ReaderReceivesAllInOrder ==
    /\ [](\A r \in Readers :
            /\ IsPrefix(readers[r].got, units)
            /\ readers[r].subscribed => readers[r].got \o readers[r].queue = units)
    /\ \A r \in Readers : \A k \in 1..MaxUnits :
           (Len(units) >= k) ~> (Len(readers[r].got) >= k \/ ~readers[r].subscribed)

\* one reader was evicted, another one has received every unit
C5_Witness ==
    \E a, b \in Readers :
        /\ readers[a].failed
        /\ readers[b].subscribed
        /\ Len(units) = MaxUnits
        /\ readers[b].got = units

(***************************************************************************)
(* Properties of segment rotation (SpecSeg).                               *)
(***************************************************************************)
\* the samples of every segment begun so far, in order
AllSegments ==
    [i \in 1..Len(segments) |-> segments[i].samples]
        \o (IF curSegment = NoSegment THEN <<>> ELSE <<curSegment>>)

SegStart(seg) == seg.samples[1].dts
SegDuration(seg) == seg.end - SegStart(seg)

\* the input of scenario E, recorded and closed: 4 s from dts 0, a sync sample
\* at every full second and nowhere else, no change of parameters
ScenarioE ==
    /\ segmentDuration = Seconds(2)
    /\ recState = "closed"
    /\ nextDts = Seconds(4)
    /\ segments # <<>>
    /\ SegStart(segments[1]) = 0
    /\ \A i \in 1..Len(segments) : \A j \in 1..Len(segments[i].samples) :
           LET s == segments[i].samples[j]
           IN /\ s.sync <=> (s.dts % TicksPerSecond = 0)
              /\ ~s.changed

\* C6: every segment begins with a sync sample; a segment after the first
\* begins with a sample that came SegmentDuration or more after the start of
\* the segment before it, or that changed the track parameters; no sample
\* inside a segment is such a sample; and scenario E gives exactly the two
\* segments [0, 2 s) and [2 s, 4 s).
C6_SegmentBeginsExactlyWhenDue ==
    /\ \A g \in 1..Len(AllSegments) :
           LET seg == AllSegments[g]
           IN /\ seg[1].sync
              /\ \A i \in 2..Len(seg) :
                     ~(seg[i].sync /\ (seg[i].dts - seg[1].dts >= segmentDuration
                                          \/ seg[i].changed))
              /\ g > 1 =>
                     \/ seg[1].dts - AllSegments[g - 1][1].dts >= segmentDuration
                     \/ seg[1].changed
    /\ ScenarioE =>
           /\ Len(segments) = 2
           /\ SegStart(segments[1]) = 0 /\ segments[1].end = Seconds(2)
           /\ SegStart(segments[2]) = Seconds(2) /\ segments[2].end = Seconds(4)

\* scenario E was recorded, and its second segment began at the sync sample
\* at 2 s although there was one at 1 s
C6_Witness ==
    /\ ScenarioE
    /\ Len(segments) = 2
    /\ Len(segments[1].samples) = Seconds(2)
    /\ segments[2].samples[1].sync

\* C7 as stated: the duration of every segment, the one closed by Close
\* included, lies in [segment_duration, segment_duration + max_gop_duration).
C7_EveryDurationInRange ==
    \A i \in 1..Len(segments) :
        /\ SegDuration(segments[i]) >= segmentDuration
        /\ SegDuration(segments[i]) < segmentDuration + MaxGop

\* C7, amended: the duration of every segment is positive and below
\* segment_duration + max_gop_duration; it is at least segment_duration for
\* the segments closed by a rotation on elapsed time, while a segment closed
\* by Close or by a change of parameters can be shorter.
C7_DurationInRangeWhenRotatedOnTime ==
    \A i \in 1..Len(segments) :
        /\ SegDuration(segments[i]) > 0
        /\ SegDuration(segments[i]) < segmentDuration + MaxGop
        /\ segments[i].closedBy = "duration"
               => SegDuration(segments[i]) >= segmentDuration

\* a segment rotated on time is followed by one that Close ended early
C7_Witness ==
    /\ Len(segments) = 2
    /\ segments[1].closedBy = "duration"
    /\ SegDuration(segments[1]) > segmentDuration
    /\ segments[2].closedBy = "close"
    /\ SegDuration(segments[2]) < segmentDuration

(***************************************************************************)
(* Properties of the track loop (SpecLoop) and the reorderer (SpecReorder).*)
(***************************************************************************)
Range(s) == {s[i] : i \in 1..Len(s)}
NoDuplicates(s) == \A i, j \in 1..Len(s) : i # j => s[i] # s[j]
StrictlyIncreasing(s) == \A i, j \in 1..Len(s) : i < j => s[i] < s[j]
StartsWith(s, t) == Len(s) >= Len(t) /\ \A i \in 1..Len(t) : s[i] = t[i]

\* the packets read so far began with the lowest sequence number and none
\* came twice: they are out of order inside the window at most
InWindowNoLoss == fed # <<>> /\ fed[1] = seqBase /\ NoDuplicates(fed)

\* C8: when the packets of a track arrive out of order inside the reorder
\* window and none is lost, the loop passes them to Stream.WriteRTPPacket in
\* increasing sequence order and the reorderer reports no lost packet, with
\* and without a Sender Report received.
C8_WrittenInSequenceOrder ==
    InWindowNoLoss => (StrictlyIncreasing(written) /\ lastResult.lost = 0)

\* C9: after the packets 100 and 101, packet 166 is returned by the call
\* that feeds it, with 64 lost packets, and 167 and 168 fed next are each
\* returned by their call with no lost packet (from either first sequence
\* number of the model).
C9_GapOfWindowSizeIsFlushed ==
    (/\ Len(fed) >= 3
     /\ fed[1] = SeqAt(0) /\ fed[2] = SeqAt(1) /\ fed[3] = SeqAt(bufferSize + 2))
    => /\ StartsWith(delivered, SubSeq(fed, 1, 3))
       /\ Len(fed) = 3 => lastResult = [packets |-> <<fed[3]>>, lost |-> 64]
       /\ (Len(fed) = 4 /\ fed[4] = SeqAt(bufferSize + 3))
              => lastResult = [packets |-> <<fed[4]>>, lost |-> 0]
       /\ (Len(fed) = 5 /\ fed[4] = SeqAt(bufferSize + 3)
                        /\ fed[5] = SeqAt(bufferSize + 4))
              => /\ lastResult = [packets |-> <<fed[5]>>, lost |-> 0]
                 /\ delivered = fed

\* 100, 101, 166, 167, 168 were fed and delivered
C9_Witness ==
    /\ fed = <<100, 101, 166, 167, 168>>
    /\ delivered = fed
    /\ lastResult = [packets |-> <<168>>, lost |-> 0]

\* packet A (0xFFFE) was fed first and packet B (0x0001) second
FedAThenB == Len(fed) >= 2 /\ fed[1] = SeqMod - 2 /\ fed[2] = 1

GapFilled == {SeqMod - 1, 0} \subseteq Range(fed)
\* a packet a window or more ahead of the expected one has been fed
FlushFed == \E i \in 1..Len(fed) : fed[i] >= bufferSize /\ fed[i] < SeqMod - 2

SmallSteps == 1..(TsMod \div 2 - 1)

\* two consecutive packets whose timestamps are t and (t + d) mod 2^32 on the
\* two sides of the wrap
Straddles(a, b, d) ==
    /\ b.Timestamp = Uint32(a.Timestamp + d)
    /\ b.Timestamp < a.Timestamp

\* C11: for two consecutive packets whose RTP timestamps straddle the wrap
\* (t, then (t + d) mod 2^32 with small d > 0) the pts of the second is the
\* pts of the first plus d clock ticks; the pts never jumps backwards.
C11_PtsContinuousAtWrap ==
    \A i \in 1..(Len(rec2Log) - 1) : \A d \in SmallSteps :
        Straddles(rec2Log[i], rec2Log[i + 1], d)
            => rec2Log[i + 1].pts - rec2Log[i].pts = d

\* the last Sender Report processed before position i of the log (0 = none)
LastReportBefore(i) ==
    LET S == {j \in 1..(i - 1) : ntpLog[j].op = "sr"}
    IN  IF S = {} THEN 0 ELSE CHOOSE j \in S : \A k \in S : k <= j

\* the difference a - b read as a signed quantity of the timestamp width
SignedDiff(a, b) ==
    CHOOSE d \in (-(TsMod \div 2))..(TsMod \div 2 - 1) : (a - b - d) % TsMod = 0

\* d clock ticks in nanoseconds, truncated towards zero
TicksInNanos(d) ==
    LET n == (IF d >= 0 THEN d ELSE -d) * 100000
    IN  IF d >= 0 THEN n \div 9 ELSE -(n \div 9)

\* C12: PacketNTP reports available = false until a Sender Report has been
\* processed; afterwards it returns, for the most recent Sender Report,
\* sr.ntp + (rtp_ts - sr.rtp_ts) / clock_rate with the difference taken as a
\* signed quantity of the timestamp width, so that a timestamp just before
\* the report's maps to a time before sr.ntp.
C12_PacketNTPFromLastReport ==
    \A i \in 1..Len(ntpLog) :
        ntpLog[i].op = "query" =>
            LET j == LastReportBefore(i)
                q == ntpLog[i]
            IN  IF j = 0
                THEN ~q.res.avail
                ELSE /\ q.res.avail
                     /\ q.res.ntp = ntpLog[j].sr.NTPTime
                            + TicksInNanos(SignedDiff(q.ts, ntpLog[j].sr.RTPTime))
                     /\ q.ts = Uint32(ntpLog[j].sr.RTPTime - 1)
                            => q.res.ntp < ntpLog[j].sr.NTPTime

\* a second Sender Report with timestamp 0 has replaced the first, and a
\* packet stamped just before it, across the wrap, got a time before sr.ntp
C12_Witness ==
    \E i \in 1..Len(ntpLog) :
        /\ ntpLog[i].op = "query"
        /\ LastReportBefore(i) > 1
        /\ ntpLog[LastReportBefore(i)].sr.RTPTime = 0
        /\ ntpLog[LastReportBefore(i)].sr # ntpLog[1].sr
        /\ ntpLog[1].op = "sr"
        /\ ntpLog[i].ts = TsMod - 1
        /\ ntpLog[i].res.avail
        /\ ntpLog[i].res.ntp < ntpLog[LastReportBefore(i)].sr.NTPTime

(***************************************************************************)
(* Properties of the WebRTCRecorder lifecycle (SpecSup).                   *)
(***************************************************************************)
\* the supervisor's own entries of the log
IsRunEvent(e) == e.ev \in {"done", "create", "exit"}

\* the supervisor's last entry before position k (0 = none)
PrevRunEvent(k) ==
    LET S == {j \in 1..(k - 1) : IsRunEvent(supLog[j])}
    IN  IF S = {} THEN 0 ELSE CHOOSE j \in S : \A i \in S : i <= j

\* C13: when the instance signals done and terminate has not been signalled,
\* the supervisor closes that instance, waits restart_pause and only then
\* creates one new instance: every restart follows a done signal whose
\* instance was closed, after the whole pause, one restart per signal.
C13_RestartAfterPauseOnly ==
    /\ \A k \in 1..Len(supLog) :
        (supLog[k].ev = "done" /\ ~supLog[k].terminated)
            => supLog[k].closed = supLog[k].inst
    /\ \A k \in 1..Len(supLog) :
        supLog[k].ev = "create"
            => /\ supLog[k].waited >= RestartPause
               /\ PrevRunEvent(k) # 0
               /\ supLog[PrevRunEvent(k)].ev = "done"

\* C14: once terminate is signalled the supervisor creates no further
\* instance, has closed the instance that was current at that moment exactly
\* once when it exits (also when terminate came during the cooldown), and
\* exits by closing the done channel.
C14_TerminateClosesCurrentOnce ==
    /\ \A k \in 1..Len(supLog) :
        supLog[k].ev = "create" => ~supLog[k].terminated
    /\ runPc = "exited" =>
        /\ done = "closed"
        /\ \A k \in 1..Len(supLog) :
            (supLog[k].ev = "close" /\ supLog[k].inst \in 1..Len(instances))
                => instances[supLog[k].inst].closes = 1

\* C15: when Close has returned the supervisor has exited and every instance
\* created for the recorder (by Initialize, by a restart or by
\* RecordFromPeerConnection) is closed.
C15_CloseLeavesNothingRunning ==
    [][(closePc = "waiting" /\ closePc' = "returned") =>
        /\ runPc = "exited"
        /\ \A i \in 1..Len(instances) : instances[i].state = "closed"]_vars

(***************************************************************************)
(* Properties of Close of the file writers (SpecMux).                      *)
(***************************************************************************)
\* C16: after Close of a file writer has returned without error, the samples
\* that WriteRTPPacket accepted have been marshalled to the output file
\* (Flush was performed) and the file is closed.
C16_CloseFlushesAcceptedSamples ==
    (file.state = "closed" /\ emitted # <<>>) => file.flushed

(***************************************************************************)
(* Properties of MuxerMP4 (SpecMuxer, SpecMux).                            *)
(***************************************************************************)
\* the samples the current track holds
CurSamples ==
    IF muxer.CurTrack = NoTrack THEN <<>> ELSE muxer.Tracks[muxer.CurTrack].Samples

\* the step is a direct WriteSample call; its arguments are the last entry
\* of emitted afterwards
IsWriteSample == writer = "MuxerMP4" /\ Len(emitted') = Len(emitted) + 1

\* the samples held before the step are all still there, whatever their
\* durations, followed by one new sample
KeepsBuffered ==
    /\ Len(CurSamples') = Len(CurSamples) + 1
    /\ \A i \in 1..Len(CurSamples) :
        /\ i <= Len(CurSamples')
        /\ CurSamples'[i].PTSOffset = CurSamples[i].PTSOffset
        /\ CurSamples'[i].IsNonSyncSample = CurSamples[i].IsNonSyncSample
        /\ CurSamples'[i].PayloadSize = CurSamples[i].PayloadSize

\* C17: WriteSample on a track that holds at least one retained sample sets
\* the duration of the previously last sample to max(0, dts - dts of that
\* sample) and changes the duration of no other sample.
C17_PreviousDurationSet ==
    [][(IsWriteSample /\ CurSamples # <<>> /\ emitted # <<>>
            /\ Len(CurSamples') = Len(CurSamples) + 1) =>
        LET n == Len(CurSamples)
            dts == emitted'[Len(emitted')].dts
            prevDts == emitted[Len(emitted)].dts
        IN  /\ CurSamples'[n].Duration = Max(dts - prevDts, 0)
            /\ \A i \in 1..(n - 1) :
                CurSamples'[i].Duration = CurSamples[i].Duration]_vars

\* three samples are held: the second came with a smaller dts than the first,
\* which left the first with duration 0, the third with a larger one
C17_Witness ==
    /\ writer = "MuxerMP4"
    /\ Len(emitted) = 3 /\ Len(CurSamples) = 3
    /\ emitted[2].dts < emitted[1].dts
    /\ CurSamples[1].Duration = 0
    /\ emitted[3].dts > emitted[2].dts
    /\ CurSamples[2].Duration = emitted[3].dts - emitted[2].dts

\* C18: WriteSample stores pts_offset 0 for every sync sample whatever the
\* caller passed, and the caller's pts_offset for every non-sync sample.
C18_SyncOffsetClamped ==
    [][IsWriteSample =>
        LET c == emitted'[Len(emitted')]
            n == Len(CurSamples')
        IN  /\ n > 0
            /\ CurSamples'[n].IsNonSyncSample = c.isNonSyncSample
            /\ CurSamples'[n].PTSOffset =
                   (IF c.isNonSyncSample THEN c.ptsOffset ELSE 0)]_vars

\* a sync sample passed with a non-zero offset is held with offset 0, and the
\* non-sync sample after it with the offset passed
C18_Witness ==
    /\ writer = "MuxerMP4"
    /\ Len(emitted) = 2 /\ Len(CurSamples) = 2
    /\ ~emitted[1].isNonSyncSample /\ emitted[1].ptsOffset # 0
    /\ CurSamples[1].PTSOffset = 0
    /\ emitted[2].isNonSyncSample /\ emitted[2].ptsOffset # 0
    /\ CurSamples[2].PTSOffset = emitted[2].ptsOffset

\* the new sample is a sync sample and its dts is negative or the sample
\* written before it had a negative dts
DiscardCase ==
    LET c == emitted'[Len(emitted')]
    IN  /\ ~c.isNonSyncSample
        /\ \/ c.dts < 0
           \/ emitted # <<>> /\ emitted[Len(emitted)].dts < 0

\* a sample with dts >= 0 has been written before the step
NonNegativeWritten == \E j \in 1..Len(emitted) : emitted[j].dts >= 0

\* WriteSample discards the buffered samples exactly in the discard case
C19_DiscardsExactlyInDiscardCase ==
    [][IsWriteSample =>
        IF DiscardCase THEN Len(CurSamples') = 1 ELSE KeepsBuffered]_vars

\* C19 as stated: WriteSample discards the buffered samples when the new
\* sample is a sync sample and its dts is negative or the previously written
\* sample had a negative dts; in every other case, in particular for every
\* non-sync sample and for every sync sample once a sample with dts >= 0 has
\* been written, no buffered sample is removed.
C19_NeverDiscardsAfterNonNegative ==
    [][IsWriteSample =>
        /\ IF DiscardCase THEN Len(CurSamples') = 1 ELSE KeepsBuffered
        /\ emitted'[Len(emitted')].isNonSyncSample => KeepsBuffered
        /\ NonNegativeWritten => KeepsBuffered]_vars

\* a non-sync sample with negative dts was buffered and the sync sample with
\* dts >= 0 after it discarded it
C19_Witness ==
    /\ writer = "MuxerMP4"
    /\ Len(emitted) = 2
    /\ emitted[1].dts < 0 /\ emitted[1].isNonSyncSample
    /\ emitted[2].dts >= 0 /\ ~emitted[2].isNonSyncSample
    /\ Len(CurSamples) = 1

\* C20: WriteFinalDTS(dts) gives the last sample of the current track the
\* duration max(0, dts - last written dts) and leaves the other samples as
\* they are, and the final DTS a writer passes when it closes is the end
\* time of the last sample, not the last sample's own dts.
C20_FinalDTSIsEndOfLastSample ==
    [][(file.state = "open" /\ file'.state = "closed" /\ file'.finalDTS.set) =>
        LET n == Len(CurSamples)
            lastDTS == muxer.Tracks[muxer.CurTrack].LastDTS
            dts == file'.finalDTS.dts
        IN  /\ n > 0 /\ Len(CurSamples') = n
            /\ CurSamples'[n].Duration = Max(dts - lastDTS, 0)
            /\ \A i \in 1..(n - 1) : CurSamples'[i] = CurSamples[i]
            /\ dts # lastDTS]_vars

(***************************************************************************)
(* Properties of depacketizing in the file writers (SpecMux).              *)
(***************************************************************************)
\* every sample the muxer holds, with its track and its place in the track
HeldSamples(m) ==
    UNION {{<<m.Tracks[i].ID, j, m.Tracks[i].Samples[j]>> :
                j \in 1..Len(m.Tracks[i].Samples)} : i \in 1..Len(m.Tracks)}

\* the H264 packets on which Decode returns one of the two recoverable errors
FragmentPackets ==
    {pkt \in Packets :
        /\ pkt.PayloadType = PtH264
        /\ DecodeFresh(pkt).err \in {"ErrMorePacketsNeeded",
                                     "ErrNonStartingPacketAndNoPrevious"}}

\* C21: when depacketizing a packet yields MorePacketsNeeded or
\* NonStartingPacketAndNoPrevious, WriteRTPPacket returns no error, appends
\* no sample and leaves the samples already buffered unchanged, and later
\* packets are still processed.
C21_FragmentLeavesSamples ==
    [][\A pkt \in FragmentPackets :
          MP4Writer_WriteRTPPacket(pkt) =>
              /\ lastErr' = "nil"
              /\ emitted' = emitted
              /\ file'.state = "open"
              /\ HeldSamples(muxer') = HeldSamples(muxer)]_vars

\* the step is the WriteRTPPacket call for the last fragment of an H264 NAL
\* unit sent in two FU-A packets: the call before it was for the first
\* fragment, with the same timestamp
LastFragmentAfterFirst ==
    /\ writer = "MP4Writer"
    /\ calls' = calls + 1
    /\ lastPkt.PayloadType = PtH264 /\ lastPkt.kind = "fu_start"
    /\ lastPkt'.PayloadType = PtH264 /\ lastPkt'.kind = "fu_end"
    /\ lastPkt'.Timestamp = lastPkt.Timestamp

\* C22: the depacketizer keeps its state across packets: a NAL unit
\* fragmented into FU-A packets that are fed in order, start fragment first
\* and end fragment last, yields exactly one access unit, and therefore
\* exactly one sample, after the last fragment.
C22_FragmentsYieldOneSample ==
    [][LastFragmentAfterFirst => Len(emitted') = Len(emitted) + 1]_vars

(***************************************************************************)
(* Properties of the packets the track loop writes (SpecLoop).             *)
(***************************************************************************)
\* C23: a packet whose payload is empty is dropped on every path: it is
\* never passed to Stream.WriteRTPPacket, also while no NTP mapping is
\* available yet.
C23_EmptyPayloadNeverWritten ==
    \A i \in 1..Len(written) : written[i] \notin emptySeqs

(***************************************************************************)
(* Properties of the DTS extractor in the file writers (SpecMux).          *)
(***************************************************************************)
\* the step is a WriteRTPPacket call of the MP4Writer
IsMP4WriterCall == writer = "MP4Writer" /\ calls' = calls + 1

\* the states a DTS extractor created for an access unit with that pts can be
\* in after Extract
FreshExtractorStates(pts) == {r.ext : r \in Extract(NewExtractor, pts)}

\* C24: when the DTS extractor fails on an access unit, that access unit is
\* dropped (no sample is appended), and the extractor is re-initialized at
\* the next random-access access unit, so access units from that point on
\* are accepted again.
C24_ExtractorReinitializedAfterFailure ==
    [][IsMP4WriterCall =>
        /\ lastErr' = "extract" => emitted' = emitted
        /\ (/\ lastErr = "extract"
            /\ lastPkt'.PayloadType = PtH264
            /\ lastPkt'.kind = "idr") =>
               h264DTSExtractor' \in FreshExtractorStates(lastPkt'.Timestamp)]_vars

(***************************************************************************)
(* Properties of the lifecycle callbacks (SpecCb).                         *)
(***************************************************************************)
\* the places in cbLog where callback cb was invoked for segment id
CallbacksFor(cb, id) ==
    {n \in 1..Len(cbLog) : cbLog[n].cb = cb /\ cbLog[n].seg = id}

\* C25: for every segment that is opened, on_segment_create is invoked
\* exactly once before any on_segment_complete for it, and
\* on_segment_complete is invoked exactly once when the segment is closed,
\* whether it closes by rotation, by Close, or by an I/O write error (after
\* which the instance is marked failed and restarted).
C25_CallbacksOncePerSegment ==
    /\ \A n \in 1..Len(cbLog) : cbLog[n].seg \in 1..Len(AllSegments)
    /\ \A id \in 1..Len(AllSegments) :
           /\ Cardinality(CallbacksFor("create", id)) = 1
           /\ Cardinality(CallbacksFor("complete", id)) =
                  (IF id <= Len(segments) THEN 1 ELSE 0)
           /\ \A c \in CallbacksFor("create", id), d \in CallbacksFor("complete", id) :
                  c < d
    /\ \A id \in 1..Len(segments) :
           \A d \in CallbacksFor("complete", id) :
               cbLog[d].duration = SegDuration(segments[id])
    /\ recState = "failed" =>
           /\ curSegment = NoSegment
           /\ segments # <<>> /\ segments[Len(segments)].closedBy = "error"
           /\ cbLog # <<>> /\ cbLog[Len(cbLog)].cb = "complete"

\* three segments were opened: the first closed by rotation, the second by a
\* write error, the third, opened by the restarted instance, by Close; six
\* callbacks were invoked
C25_Witness ==
    /\ recState = "closed"
    /\ Len(segments) = 3
    /\ segments[1].closedBy = "duration"
    /\ segments[2].closedBy = "error"
    /\ segments[3].closedBy = "close"
    /\ Len(cbLog) = 6
    /\ cbLog[4].cb = "complete" /\ cbLog[4].seg = 2
    /\ cbLog[4].duration < segmentDuration

(***************************************************************************)
(* Properties of the parameter sets of RTPRecorder (SpecMux).              *)
(***************************************************************************)
\* the codec of the init track of the RTPRecorder's muxer
InitTrackCodec(m) == m.Tracks[1].Codec

IsRestartCreate ==
    /\ Len(instances') = Len(instances) + 1
    /\ instances'[Len(instances')].by = "restart"

\* C27: the instance the supervisor re-creates after a restart is subscribed
\* to the same stream as the instance it replaces: it is never created
\* without a stream.
C27_RestartKeepsStream ==
    [][(/\ IsRestartCreate
        /\ currentInstance \in 1..Len(instances)
        /\ instances[currentInstance].stream) =>
            instances'[Len(instances')].stream]_vars

(***************************************************************************)
(* Properties of the constructors (SpecNew).                               *)
(***************************************************************************)
\* C28: when construction of a writer fails (output file cannot be created,
\* unsupported codec, processor, stream or format initialization error), an
\* error is returned, no file handle remains open and no recorder,
\* supervisor or reader task is left running.
C28_FailedConstructionLeavesNothing ==
    \A i \in 1..Len(built) :
        built[i].failAt # "none" =>
            /\ built[i].ret = "error"
            /\ built[i].file # "open"
            /\ built[i].recorder # "running"
            /\ built[i].reader # "running"

(***************************************************************************)
(* Properties of packet ownership (SpecOwn).                               *)
(***************************************************************************)
\* the step is not a call of the writer: the caller changes a packet object
\* that an earlier call received
IsCallerStep == calls' = calls /\ file' = file

\* C29: the pipeline uses an RTP packet only during the ingest call that
\* received it: after WriteRTPPacket returns, changing or reusing that
\* packet object changes nothing the writer holds, neither the samples
\* already accepted nor what the timestamps of later samples are computed
\* from.
C29_PacketNotUsedAfterCall ==
    [][IsCallerStep =>
        /\ muxer' = muxer
        /\ emitted' = emitted
        /\ proc' = proc
        /\ firstTimestamp' = firstTimestamp]_vars

(***************************************************************************)
(* Properties of the samples the muxer holds (SpecMux).                    *)
(***************************************************************************)
\* no WriteSample call so far had a negative dts, so the rule that discards
\* the samples before the first key frame has removed nothing
NothingDiscarded == \A i \in 1..Len(emitted) : emitted[i].dts >= 0

\* C30: samples accepted by the muxer stay in it until Flush: for any
\* sequence of WriteRTPPacket calls, including packets whose payload types
\* alternate, every sample accepted for a track and not removed by the
\* pre-keyframe discard rule is still held by the muxer when Flush runs.
C30_AcceptedSamplesHeldUntilFlush ==
    (writer = "MP4Writer" /\ file.state # "panic" /\ NothingDiscarded) =>
        /\ Cardinality(HeldSamples(muxer)) = Len(emitted)
        /\ \A i \in 1..Len(emitted) :
               \E h \in HeldSamples(muxer) : h[1] = emitted[i].track

(***************************************************************************)
(* Properties of the fallback clock of the track loop (SpecLoop).          *)
(***************************************************************************)
\* C31: in the fallback without Sender Reports the clock is anchored at the
\* first packet received on the track: the pts of every packet written in the
\* fallback is its RTP timestamp minus that of the first packet read, modulo
\* the width of the timestamp, whatever the first timestamp is (0 included).
C31_FallbackAnchoredAtFirstPacket ==
    \A i \in 1..Len(ptsLog) :
        ptsLog[i].fallback =>
            /\ ptsLog[i].pts.anchor = "firstRTPTime"
            /\ ptsLog[i].pts.ticks =
                   Uint32(ptsLog[i].Timestamp - TimestampOf(fed[1]))

(***************************************************************************)
(* Properties of what the track loop hands to the stream (SpecLoop).       *)
(***************************************************************************)
Occurrences(s, x) == Cardinality({i \in 1..Len(s) : s[i] = x})

\* C35: every packet with a payload that the reorderer has delivered has been
\* passed to Stream.WriteRTPPacket exactly as often as it was delivered (once),
\* whether or not an NTP mapping was available and whether or not
\* ProcessPacket reported an error.
C35_DeliveredWrittenExactlyOnce ==
    \A i \in 1..Len(delivered) :
        ~PayloadIsEmpty(delivered[i]) =>
            Occurrences(written, delivered[i]) = Occurrences(delivered, delivered[i])

(***************************************************************************)
(* Properties of RecordFromPeerConnection and its callbacks (SpecTracks).  *)
(***************************************************************************)
\* the callback of a supported video track ran between the call and its return
TrackSeenDuringCall ==
    \E i \in 1..Len(trackLog) :
        /\ IsSupportedTrack(trackLog[i].id, trackLog[i].mime)
        /\ trackLog[i].during \in {"registered", "select"}

\* C32: RecordFromPeerConnection returns the timeout error only if no callback
\* of a supported video track ran while it was waiting (up to 5 s), and nil
\* only if one did, in every interleaving of the callback with the caller.
C32_NilIffTrackWithinTimeout ==
    /\ recordCall = "timeout" => ~TrackSeenDuringCall
    /\ recordCall = "nil" => TrackSeenDuringCall

\* C36: with several tracks whose callbacks run concurrently, every
\* Stream.WriteRTPPacket call is made on a stream whose Initialize has
\* succeeded and with a media of the stream's description, and the stream and
\* its recorder are initialized at most once (exactly once before any write).
C36_WritesOnInitializedStreamOnly ==
    /\ \A i \in 1..Len(strmWrites) :
           /\ strmWrites[i].initialized = 1
           /\ \E k \in 1..Len(strmWrites[i].Medias) :
                  strmWrites[i].Medias[k] = strmWrites[i].medi
    /\ strm.initializeCalls <= 1
    /\ strm.recorders <= 1

(***************************************************************************)
(* Properties of WebRTCRecorder.Close (SpecSupFair).                       *)
(***************************************************************************)
\* C33: every call of WebRTCRecorder.Close eventually returns, on a recorder
\* on which Initialize was called as well as on one that was only constructed
\* and used through RecordFromPeerConnection.
C33_CloseEventuallyReturns == (closePc # "idle") ~> (closePc = "returned")

(***************************************************************************)
(* Properties of Close after any packets (SpecMux).                        *)
(***************************************************************************)
\* C34: Close of a file writer completes without an out-of-range access after
\* every sequence of WriteRTPPacket calls, also when the current track holds no
\* sample.
C34_CloseNeverOutOfRange == file.state # "panic"

(***************************************************************************)
(* Properties of the durations of a whole track (SpecMuxer).               *)
(***************************************************************************)
RECURSIVE SumDurations(_)
SumDurations(samples) ==
    IF samples = <<>> THEN 0
    ELSE samples[Len(samples)].Duration + SumDurations(SubSeq(samples, 1, Len(samples) - 1))

\* the WriteSample calls so far had non-decreasing dts and none of their
\* samples was discarded
NonDecreasingAllKept ==
    /\ emitted # <<>>
    /\ \A i \in 1..(Len(emitted) - 1) : emitted[i].dts <= emitted[i + 1].dts
    /\ Len(CurSamples) = Len(emitted)

\* C37: when a track has received samples with non-decreasing dts d1 <= ... <=
\* dn, none of them discarded, and WriteFinalDTS(f) is called with f >= dn,
\* the durations of its samples add up to f - d1 and its time offset is d1.
C37_DurationsSumToSpan ==
    [][(/\ calls' = calls + 1 /\ emitted' = emitted
        /\ file'.finalDTS.set /\ file'.state = "open"
        /\ NonDecreasingAllKept
        /\ file'.finalDTS.dts >= emitted[Len(emitted)].dts) =>
           /\ SumDurations(CurSamples') = file'.finalDTS.dts - emitted[1].dts
           /\ muxer'.Tracks[muxer'.CurTrack].TimeOffset = emitted[1].dts]_vars

(***************************************************************************)
(* Properties of the start of an RTPRecorder (SpecParams).                 *)
(***************************************************************************)
\* the step is a WriteRTPPacket call of the RTPRecorder; its packet is lastPkt'
IsRTPRecorderCall == writer = "RTPRecorder" /\ calls' = calls + 1

\* C38: RTPRecorder creates its muxer and writes a sample only when both an SPS
\* and a PPS packet have been received before; a call with an SPS or PPS
\* packet writes no sample, and a call made before both are known leaves the
\* muxer as it was.
C38_MuxerOnlyAfterParameterSets ==
    [][IsRTPRecorderCall =>
        /\ (sps = 0 \/ pps = 0) =>
               /\ muxer' = muxer
               /\ emitted' = emitted
               /\ h264DTSExtractor' = h264DTSExtractor
        /\ lastPkt'.kind \in {"sps", "pps"} =>
               /\ muxer' = muxer
               /\ emitted' = emitted
        /\ (muxer'.created /\ ~muxer.created) => (sps # 0 /\ pps # 0)
        /\ muxer.created => (sps # 0 /\ pps # 0)]_vars

\* an RTPRecorder that has created its muxer and written a sample, after more
\* calls than the sample and the two parameter sets account for (a packet
\* ignored while a parameter set was missing, or a parameter set sent again)
C38_Witness ==
    /\ writer = "RTPRecorder"
    /\ muxer.created
    /\ emitted # <<>>
    /\ calls > Len(emitted) + 2
    /\ lastErr = "nil"

====
